---- MODULE Spec2Model ----
(***************************************************************************)
(* Label templating and export pipeline of Spoolman_Labels.                *)
(*                                                                         *)
(* Strings of the program are modelled as sequences of one-character       *)
(* strings, so that regular expressions, String.prototype.replace and the  *)
(* filename sanitizer are computed character by character.                 *)
(***************************************************************************)
EXTENDS Integers, Sequences, FiniteSets, TLC

VARIABLES
    template,      \* renderTemplateText: the template argument
    obj,           \* renderTemplateText: the record argument
    rendered,      \* renderTemplateText: the outcome of the call
    items,         \* ExportDialog: the rendered .print-qrcode-item elements
    uniqueItems,   \* getUniqueExportItems: result of the last standalone call
    printSettings, \* ExportDialog: the caller-owned PrintSettings object
    zipFileTypeName, \* ExportDialog: the zipFileTypeName prop
    runs,          \* handleExport: the invocations started so far, each with
                   \* its closure constants, its position and its outputs
    sanitized,     \* sanitizeFilename, sanitizePreviewFilename,
                   \* slugifyVendorName: an input and the results of applying
                   \* one of the functions to it once and twice
    presetStore,   \* the preset state of a QR code export dialog: persisted
                   \* lists, local working copy, selection, active preset
    amlDoc,        \* buildAmlXml: its arguments and the document it built
    vendorLogo,    \* VendorLogo: vendor, candidate URLs, candidateIndex
    titleFit,      \* TitleTextBlock: measured widths, fitScale, text size
    headerBudget,  \* QRCodeExportDialog: paper height, margins and the
                   \* height budget of the header
    raster,        \* getExportImageOptions: the export DPI and the options
                   \* handed to htmlToImage.toPng
    labelDom,      \* QRCodeExportDialog: the settings, one item and the
                   \* element rendered for it
    tagLookup      \* getTagValue: a tag, a record and the value returned

\* the variables of the template engine and of the export dialog
dialogVars == <<template, obj, rendered, items, uniqueItems, printSettings, zipFileTypeName, runs>>

vars ==
    <<dialogVars, sanitized, presetStore, amlDoc, vendorLogo, titleFit, headerBudget,
      raster, labelDom, tagLookup>>

(***************************************************************************)
(* Bounds                                                                  *)
(***************************************************************************)
MaxPieces == 4
MaxItems == 3
MaxExportItems == 3
MaxRuns == 1
MaxNameLen == 3
MaxOps == 4

(***************************************************************************)
(* Generic string helpers                                                  *)
(***************************************************************************)
Min(S) == CHOOSE x \in S : \A y \in S : x <= y

RECURSIVE ConcatAll(_)
ConcatAll(ss) == IF ss = <<>> THEN <<>> ELSE Head(ss) \o ConcatAll(Tail(ss))

\* s.slice(from - 1, to) in 1-based inclusive indices; empty when from > to
Slice(s, from, to) == IF from > to THEN <<>> ELSE SubSeq(s, from, to)

\* p occurs in s at (1-based) position i
OccursAt(s, p, i) ==
    /\ i >= 1
    /\ i + Len(p) - 1 <= Len(s)
    /\ \A k \in 1..Len(p) : s[i + k - 1] = p[k]

\* String.prototype.indexOf, 1-based; 0 when p does not occur
IndexOf(s, p) ==
    LET hits == {i \in 1..(Len(s) + 1) : OccursAt(s, p, i)}
    IN IF hits = {} THEN 0 ELSE Min(hits)

\* number of occurrences of character c
CountChar(s, c) == Cardinality({i \in 1..Len(s) : s[i] = c})

DigitChars == <<"0", "1", "2", "3", "4", "5", "6", "7", "8", "9">>

\* String(n) for a non-negative integer
RECURSIVE NatToStr(_)
NatToStr(n) == IF n < 10 THEN <<DigitChars[n + 1]>>
               ELSE NatToStr(n \div 10) \o <<DigitChars[(n % 10) + 1]>>

(***************************************************************************)
(* JavaScript values of a record. Every value is a record of the same      *)
(* shape: t is the typeof-like tag, s the string payload, n the numeric or *)
(* boolean payload, f the own properties of an object.                     *)
(***************************************************************************)
NoProps == [k \in {} |-> 0]

Undefined == [t |-> "undefined", s |-> <<>>, n |-> 0, f |-> NoProps]
Null == [t |-> "null", s |-> <<>>, n |-> 0, f |-> NoProps]
Str(s) == [t |-> "string", s |-> s, n |-> 0, f |-> NoProps]
Num(n) == [t |-> "number", s |-> <<>>, n |-> n, f |-> NoProps]
Bool(b) == [t |-> "boolean", s |-> <<>>, n |-> IF b THEN 1 ELSE 0, f |-> NoProps]
Object(f) == [t |-> "object", s |-> <<>>, n |-> 0, f |-> f]
\* a thrown exception, carried as the outcome of an evaluation
Throw(name) == [t |-> "throw", s |-> name, n |-> 0, f |-> NoProps]

IsThrow(v) == v.t = "throw"
IsNullish(v) == v.t \in {"undefined", "null"}

\* the sentinel "?" of getTagValue
Sentinel == Str(<<"?">>)

\* o[key]: property read; undefined for a missing own property
GetProp(o, key) == IF key \in DOMAIN o.f THEN o.f[key] ELSE Undefined

\* String(v), and the string v contributes to a + concatenation
JsString(v) ==
    CASE v.t = "string" -> v.s
      [] v.t = "number" -> IF v.n < 0 THEN <<"-">> \o NatToStr(0 - v.n) ELSE NatToStr(v.n)
      [] v.t = "boolean" -> IF v.n = 1 THEN <<"t", "r", "u", "e">> ELSE <<"f", "a", "l", "s", "e">>
      [] v.t = "undefined" -> <<"u", "n", "d", "e", "f", "i", "n", "e", "d">>
      [] v.t = "null" -> <<"n", "u", "l", "l">>
      [] OTHER -> <<"[", "o", "b", "j", "e", "c", "t", " ", "O", "b", "j", "e", "c", "t", "]">>

RECURSIVE StrToNat(_)
StrToNat(s) ==
    IF s = <<>> THEN 0
    ELSE 10 * StrToNat(SubSeq(s, 1, Len(s) - 1))
         + (CHOOSE d \in 0..9 : DigitChars[d + 1] = s[Len(s)])

IsDigit(c) == \E d \in 1..10 : DigitChars[d] = c

\* JSON.parse on the JSON texts an extra field can hold: a string literal
\* without escapes, a non-negative integer, true, false, null. Any other
\* text is a SyntaxError.
JsonParse(s) ==
    CASE /\ Len(s) >= 2
         /\ s[1] = "\""
         /\ s[Len(s)] = "\""
         /\ \A i \in 2..(Len(s) - 1) : s[i] \notin {"\"", "\\", "\n"}
            -> Str(Slice(s, 2, Len(s) - 1))
      [] /\ Len(s) >= 1
         /\ \A i \in 1..Len(s) : IsDigit(s[i])
         /\ (Len(s) = 1 \/ s[1] # "0")
            -> Num(StrToNat(s))
      [] s = <<"t", "r", "u", "e">> -> Bool(TRUE)
      [] s = <<"f", "a", "l", "s", "e">> -> Bool(FALSE)
      [] s = <<"n", "u", "l", "l">> -> Null
      [] OTHER -> Throw("SyntaxError")

(***************************************************************************)
(* getTagValue                                                             *)
(***************************************************************************)
\* String.prototype.split(sep) for a one-character separator
RECURSIVE Split(_, _)
Split(s, sep) ==
    LET hits == {i \in 1..Len(s) : s[i] = sep}
    IN IF hits = {} THEN <<s>>
       ELSE LET i == Min(hits)
            IN <<Slice(s, 1, i - 1)>> \o Split(Slice(s, i + 1, Len(s)), sep)

\* Array.prototype.join(sep)
RECURSIVE Join(_, _)
Join(parts, sep) ==
    IF parts = <<>> THEN <<>>
    ELSE IF Len(parts) = 1 THEN parts[1]
    ELSE parts[1] \o <<sep>> \o Join(Tail(parts), sep)

ExtraKey == <<"e", "x", "t", "r", "a">>

RECURSIVE getTagValue(_, _)
getTagValue(tag, o) ==
    LET tagParts == Split(tag, ".")
    IN IF tagParts[1] = ExtraKey
       THEN LET extra == GetProp(o, ExtraKey)
                key == IF Len(tagParts) >= 2 THEN tagParts[2] ELSE JsString(Undefined)
            IN IF IsNullish(extra) THEN Throw("TypeError")
               ELSE LET extraValue == GetProp(extra, key)
                    IN IF extraValue.t = "undefined" THEN Sentinel
                       ELSE IF extraValue.t = "string" THEN JsonParse(extraValue.s)
                       ELSE JsonParse(JsString(extraValue))
       ELSE LET got == GetProp(o, tagParts[1])
                value == IF IsNullish(got) THEN Sentinel ELSE got
            IN IF value.t = "object"
               THEN getTagValue(Join(Tail(tagParts), "."), value)
               ELSE value

(***************************************************************************)
(* Regular expressions of renderTemplateText                               *)
(***************************************************************************)
\* end of the longest run of [^}{] characters starting at position i
\* (the position after the run)
RECURSIVE SkipNonBrace(_, _)
SkipNonBrace(s, i) ==
    IF i <= Len(s) /\ s[i] \notin {"{", "}"} THEN SkipNonBrace(s, i + 1) ELSE i

\* (?:[^}{]|{[^}{]*})* from position i: the position after the greedy
\* repetition. No alternative can start with "}", so giving back
\* repetitions never lets the closing "}" match earlier.
RECURSIVE SkipGroupBody(_, _)
SkipGroupBody(s, i) ==
    IF i > Len(s) THEN i
    ELSE IF s[i] \notin {"{", "}"} THEN SkipGroupBody(s, i + 1)
    ELSE IF s[i] = "{"
         THEN LET j == SkipNonBrace(s, i + 1)
              IN IF j <= Len(s) /\ s[j] = "}" THEN SkipGroupBody(s, j + 1) ELSE i
    ELSE i

\* /{(?:[^}{]|{[^}{]*})*}/s anchored at position i: the index of the last
\* character of the match, 0 when there is none
MatchSpanAt(s, i) ==
    IF i <= Len(s) /\ s[i] = "{"
    THEN LET j == SkipGroupBody(s, i + 1)
         IN IF j <= Len(s) /\ s[j] = "}" THEN j ELSE 0
    ELSE 0

\* [...template.matchAll(/{(?:[^}{]|{[^}{]*})*}/gs)] as the sequence of
\* match[0] strings, scanning from position i
RECURSIVE MatchAllFrom(_, _)
MatchAllFrom(s, i) ==
    IF i > Len(s) THEN <<>>
    ELSE LET e == MatchSpanAt(s, i)
         IN IF e = 0 THEN MatchAllFrom(s, i + 1)
            ELSE <<SubSeq(s, i, e)>> \o MatchAllFrom(s, e + 1)

matchAllSpans(s) == MatchAllFrom(s, 1)

NoLineTerminator(s, from, to) ==
    LET \* "." of a regular expression without the s flag
        LineTerminators == {"\n", "\r"}
    IN  \A k \in from..to : s[k] \notin LineTerminators

\* m.match(/{(.*?){(.*?)}(.*?)}/): leftmost match, each group as short as
\* possible, backtracking in the order of the groups. The result is
\* <<group1, group2, group3>>, or <<>> for null.
structureMatch(m) ==
    LET Ends3(p2) == {p3 \in (p2 + 1)..Len(m) :
                        m[p3] = "}" /\ NoLineTerminator(m, p2 + 1, p3 - 1)}
        Ends2(p1) == {p2 \in (p1 + 1)..Len(m) :
                        m[p2] = "}" /\ NoLineTerminator(m, p1 + 1, p2 - 1) /\ Ends3(p2) # {}}
        Ends1(s) == {p1 \in (s + 1)..Len(m) :
                        m[p1] = "{" /\ NoLineTerminator(m, s + 1, p1 - 1) /\ Ends2(p1) # {}}
        starts == {s \in 1..Len(m) : m[s] = "{" /\ Ends1(s) # {}}
    IN IF starts = {} THEN <<>>
       ELSE LET s == Min(starts)
                p1 == Min(Ends1(s))
                p2 == Min(Ends2(p1))
                p3 == Min(Ends3(p2))
            IN <<Slice(m, s + 1, p1 - 1), Slice(m, p1 + 1, p2 - 1), Slice(m, p2 + 1, p3 - 1)>>

\* match[0].replace(/[{}]/g, "")
RECURSIVE stripBraces(_)
stripBraces(s) ==
    IF s = <<>> THEN <<>>
    ELSE IF Head(s) \in {"{", "}"} THEN stripBraces(Tail(s))
    ELSE <<Head(s)>> \o stripBraces(Tail(s))

(***************************************************************************)
(* String.prototype.replace(searchString, replaceString)                   *)
(***************************************************************************)
\* GetSubstitution for a string pattern (no capture groups): dollar-dollar
\* is one dollar sign, dollar-ampersand the matched text, dollar-backtick
\* the text before the match, dollar-apostrophe the text after it; every
\* other dollar sign is literal.
\* the grave accent character (the lexer of TLA+ accepts none in a string)
GraveAccent == "grave-accent"

RECURSIVE GetSubstitution(_, _, _, _)
GetSubstitution(repl, matched, before, after) ==
    IF repl = <<>> THEN <<>>
    ELSE IF Head(repl) = "$" /\ Len(repl) >= 2 /\ repl[2] \in {"$", "&", GraveAccent, "'"}
         THEN (CASE repl[2] = "$" -> <<"$">>
                 [] repl[2] = "&" -> matched
                 [] repl[2] = GraveAccent -> before
                 [] OTHER -> after)
              \o GetSubstitution(Slice(repl, 3, Len(repl)), matched, before, after)
    ELSE <<Head(repl)>> \o GetSubstitution(Tail(repl), matched, before, after)

\* text.replace(pattern, repl): only the first occurrence of pattern in
\* text is replaced
replaceFirst(text, pattern, repl) ==
    LET i == IndexOf(text, pattern)
    IN IF i = 0 THEN text
       ELSE LET before == Slice(text, 1, i - 1)
                after == Slice(text, i + Len(pattern), Len(text))
            IN before \o GetSubstitution(repl, pattern, before, after) \o after

(***************************************************************************)
(* renderTemplateText                                                      *)
(***************************************************************************)
\* the second argument of the replace call made for one match: Str(text),
\* Undefined when no replace call is made for the match, or a thrown
\* exception
matchReplacement(match, o) ==
    LET braces == CountChar(match, "{")
    IN IF braces = 1
       THEN LET tagValue == getTagValue(stripBraces(match), o)
            IN IF IsThrow(tagValue) THEN tagValue ELSE Str(JsString(tagValue))
       ELSE IF braces = 2
       THEN LET structure == structureMatch(match)
            IN IF structure = <<>> THEN Undefined
               ELSE LET tagValue == getTagValue(structure[2], o)
                    IN IF IsThrow(tagValue) THEN tagValue
                       ELSE IF tagValue = Sentinel THEN Str(<<>>)
                       ELSE Str(structure[1] \o JsString(tagValue) \o structure[3])
       ELSE Undefined

\* one iteration of matches.forEach: the new renderedText, or a thrown
\* exception
renderMatch(renderedText, match, o) ==
    LET repl == matchReplacement(match, o)
    IN IF IsThrow(repl) THEN repl
       ELSE IF repl.t = "undefined" THEN Str(renderedText)
       ELSE Str(replaceFirst(renderedText, match, repl.s))

RECURSIVE renderMatches(_, _, _)
renderMatches(renderedText, matches, o) ==
    IF matches = <<>> THEN Str(renderedText)
    ELSE LET step == renderMatch(renderedText, Head(matches), o)
         IN IF IsThrow(step) THEN step
            ELSE renderMatches(step.s, Tail(matches), o)

\* the returned string as Str(text), or Throw(name) when the call throws
renderTemplateText(tpl, o) == renderMatches(tpl, matchAllSpans(tpl), o)

(***************************************************************************)
(* Export filenames: sanitizeFilename and getUniqueExportItems             *)
(***************************************************************************)
\* white space of String.prototype.trim and of \s
WhiteSpace == {" ", "\t", "\n", "\r"}

\* value.trim()
RECURSIVE trim(_)
trim(s) ==
    IF s = <<>> THEN <<>>
    ELSE IF Head(s) \in WhiteSpace THEN trim(Tail(s))
    ELSE IF s[Len(s)] \in WhiteSpace THEN trim(SubSeq(s, 1, Len(s) - 1))
    ELSE s

\* the class [<>:"/\\|?*\x00-\x1F]; of the control characters the model
\* has tab, line feed and carriage return
IllegalChars == {"<", ">", ":", "\"", "/", "\\", "|", "?", "*", "\t", "\n", "\r"}

\* .replace(/[<>:"/\\|?*\x00-\x1F]/g, "-")
replaceIllegal(s) == [i \in 1..Len(s) |-> IF s[i] \in IllegalChars THEN "-" ELSE s[i]]

\* .replace(/\s+/g, " ")
RECURSIVE collapseWhitespace(_)
collapseWhitespace(s) ==
    IF s = <<>> THEN <<>>
    ELSE IF Head(s) \in WhiteSpace
         THEN IF Len(s) >= 2 /\ s[2] \in WhiteSpace
              THEN collapseWhitespace(Tail(s))
              ELSE <<" ">> \o collapseWhitespace(Tail(s))
    ELSE <<Head(s)>> \o collapseWhitespace(Tail(s))

\* .replace(/\.+$/g, "")
RECURSIVE stripTrailingDots(_)
stripTrailingDots(s) ==
    IF s # <<>> /\ s[Len(s)] = "." THEN stripTrailingDots(SubSeq(s, 1, Len(s) - 1)) ELSE s

sanitizeFilename(value) ==
    LET trimmed == trim(value)
    IN IF trimmed = <<>> THEN <<>>
       ELSE stripTrailingDots(collapseWhitespace(replaceIllegal(trimmed)))

\* a suffix that is not padded
padStart2Unpadded(n) == NatToStr(n)

\* String(n).padStart(2, "0")
padStart2(n) ==
    LET digits == NatToStr(n)
    IN IF Len(digits) < 2 THEN <<"0">> \o digits ELSE digits

\* `label-${idx}`
labelFallback(idx) == <<"l", "a", "b", "e", "l", "-">> \o NatToStr(idx)

\* a comparison that looks at the content and not at the attributes
isEqualNodeContentOnly(item, other) == item.body = other.body

\* item.isEqualNode(other): the elements are compared by their attributes
\* (data-aml-name among them) and their content
isEqualNode(item, other) == item = other

\* while (usedNames.has(safeName)) { safeName = baseName + suffix; nameSuffix += 1 }
\* The result holds the name found and the value of nameSuffix at the exit.
RECURSIVE resolveCollision(_, _, _, _)
resolveCollision(safeName, baseName, nameSuffix, usedNames) ==
    IF safeName \in usedNames
    THEN resolveCollision(baseName \o padStart2(nameSuffix), baseName, nameSuffix + 1, usedNames)
    ELSE [safeName |-> safeName, nameSuffix |-> nameSuffix]

\* baseName of getUniqueExportItems for the idx-th printed item
exportBaseName(item, idx) ==
    LET rawName == IF item.amlName # <<>> THEN item.amlName ELSE labelFallback(idx)
        clean == sanitizeFilename(rawName)
    IN IF clean # <<>> THEN clean ELSE labelFallback(idx)

\* a loop that forgets to record the name it gave
addUsedNameForgotten(usedNames, safeName) == usedNames

\* usedNames.add(safeName)
addUsedName(usedNames, safeName) == usedNames \cup {safeName}

\* the for loop of getUniqueExportItems over the remaining items
RECURSIVE uniqueItemsLoop(_, _, _, _, _)
uniqueItemsLoop(rest, hasPrinted, usedNames, acc, idx) ==
    IF rest = <<>> THEN acc
    ELSE LET item == Head(rest)
             isDuplicate == \E i \in 1..Len(hasPrinted) : isEqualNode(item, hasPrinted[i])
         IN IF isDuplicate
            THEN uniqueItemsLoop(Tail(rest), hasPrinted, usedNames, acc, idx)
            ELSE LET baseName == exportBaseName(item, idx)
                     found == resolveCollision(baseName, baseName, 1, usedNames)
                 IN uniqueItemsLoop(Tail(rest),
                                    Append(hasPrinted, item),
                                    addUsedName(usedNames, found.safeName),
                                    Append(acc, [item |-> item,
                                                 safeName |-> found.safeName,
                                                 nameSuffix |-> found.nameSuffix]),
                                    idx + 1)

getUniqueExportItems(itemsToPrint) == uniqueItemsLoop(itemsToPrint, <<>>, {}, <<>>, 1)

(***************************************************************************)
(* sanitizePreviewFilename and slugifyVendorName                           *)
(***************************************************************************)
\* the sanitizer of the preview's filenames, the same text as sanitizeFilename
sanitizePreviewFilename(value) ==
    LET trimmed == trim(value)
    IN IF trimmed = <<>> THEN <<>>
       ELSE stripTrailingDots(collapseWhitespace(replaceIllegal(trimmed)))

\* stand-in for the letter e with an acute accent (U+00E9); its NFKD form
\* is the letter e followed by the combining acute accent (U+0301)
EAcute == "e-acute"

\* name.normalize("NFKD").replace(/[\u0300-\u036f]/g, "").toLowerCase()
\*     .replace(/&/g, " and ").replace(/[^a-z0-9]+/g, "-").replace(/^-+|-+$/g, "")
slugifyVendorName(name) ==
    LET combining == "combining-acute"
        \* the members of [a-z0-9] among the characters of the model
        lowerAlnum == {"a", "d", "e", "n"} \cup {DigitChars[i] : i \in 1..Len(DigitChars)}
        RECURSIVE normalizeNFKD(_)
        normalizeNFKD(s) ==
            IF s = <<>> THEN <<>>
            ELSE (IF Head(s) = EAcute THEN <<"e", combining>> ELSE <<Head(s)>>)
                    \o normalizeNFKD(Tail(s))
        stripCombining(s) == SelectSeq(s, LAMBDA c : c # combining)
        toLowerCase(s) == [i \in 1..Len(s) |-> IF s[i] = "A" THEN "a" ELSE s[i]]
        RECURSIVE replaceAmpersand(_)
        replaceAmpersand(s) ==
            IF s = <<>> THEN <<>>
            ELSE (IF Head(s) = "&" THEN <<" ", "a", "n", "d", " ">> ELSE <<Head(s)>>)
                    \o replaceAmpersand(Tail(s))
        RECURSIVE replaceNonAlnumRuns(_)
        replaceNonAlnumRuns(s) ==
            IF s = <<>> THEN <<>>
            ELSE IF Head(s) \notin lowerAlnum
                 THEN IF Len(s) >= 2 /\ s[2] \notin lowerAlnum
                      THEN replaceNonAlnumRuns(Tail(s))
                      ELSE <<"-">> \o replaceNonAlnumRuns(Tail(s))
            ELSE <<Head(s)>> \o replaceNonAlnumRuns(Tail(s))
        RECURSIVE stripHyphens(_)
        stripHyphens(s) ==
            IF s = <<>> THEN <<>>
            ELSE IF Head(s) = "-" THEN stripHyphens(Tail(s))
            ELSE IF s[Len(s)] = "-" THEN stripHyphens(SubSeq(s, 1, Len(s) - 1))
            ELSE s
    IN IF name = <<>> THEN <<>>
       ELSE stripHyphens(replaceNonAlnumRuns(replaceAmpersand(
                toLowerCase(stripCombining(normalizeNFKD(name))))))

(***************************************************************************)
(* ExportDialog: handleExport, saveAsImage, saveAsAmlLabels, saveAsZip     *)
(***************************************************************************)
PNG == <<"p", "n", "g">>
AML == <<"a", "m", "l">>

\* printSettings?.exportFormat || "aml"
exportFormatOf(settings) ==
    IF settings.exportFormat.t = "string" /\ settings.exportFormat.s # <<>>
    THEN settings.exportFormat.s
    ELSE AML

\* printSettings?.exportAsZip ?? false
exportAsZipOf(settings) ==
    IF IsNullish(settings.exportAsZip) THEN FALSE ELSE settings.exportAsZip.n = 1

\* String.prototype.toUpperCase on the letters of the format names
toUpperCase(s) ==
    LET LowerCase == <<"a", "l", "m", "n", "g", "p">>
        UpperCase == <<"A", "L", "M", "N", "G", "P">>
    IN  [i \in 1..Len(s) |->
            IF \E k \in 1..Len(LowerCase) : LowerCase[k] = s[i]
            THEN UpperCase[CHOOSE k \in 1..Len(LowerCase) : LowerCase[k] = s[i]]
            ELSE s[i]]

\* `${exportFormat.toUpperCase()} ${zipFileTypeName} labels.zip`
zipArchiveName(exportFormat, typeName) ==
    toUpperCase(exportFormat) \o <<" ">> \o typeName
    \o <<" ", "l", "a", "b", "e", "l", "s", ".", "z", "i", "p">>

\* `${safeName}.png` and `${safeName}.aml`
labelFileName(safeName, extension) == safeName \o <<".">> \o extension

\* the data URL htmlToImage.toPng resolves with for an element
toPngUrl(item) == [mime |-> "image/png", base64 |-> item]

NoContent ==
    [kind |-> "none", labelName |-> <<>>, pages |-> <<>>, entries |-> <<>>,
     aml |-> [written |-> FALSE]]

\* the PNG behind a data URL (the link target, or the fetched blob)
pngContent(url) == [NoContent EXCEPT !.kind = "png", !.pages = <<url.base64>>]

\* A number of millimetres is [finite, tenths]: a finite number is the count
\* of its tenths of a millimetre, anything else (undefined, NaN) has finite
\* FALSE.  A printed number is [digits, scaled]: the decimal numeral with
\* that many fraction digits whose value is scaled / 10^digits.

\* (numerator / denominator).toFixed(digits) of a number that is not
\* negative: the nearest numeral with that many fraction digits, the larger
\* one of two that are equally near
toFixed(numerator, denominator, digits) ==
    LET power == IF digits = 0 THEN 1
                 ELSE IF digits = 1 THEN 10
                 ELSE IF digits = 2 THEN 100
                 ELSE IF digits = 3 THEN 1000 ELSE 10000
    IN [digits |-> digits,
        scaled |-> (2 * numerator * power + denominator) \div (2 * denominator)]

\* buildAmlPageXml(width, height, base64Png): one WdPage element whose
\* contents are one Image element
buildAmlPageXml(width, height, base64Png) ==
    [images |-> <<[content |-> base64Png,
                   height |-> toFixed(height, 10, 3),
                   width |-> toFixed(width, 10, 3)]>>]

\* buildAmlXml(name, widthMm, heightMm, base64Pages): the LPAPI document.
\* pages keeps the payloads in page order; aml holds the fields written
\* from the dimensions and the page elements.
buildAmlXml(name, widthMm, heightMm, base64Pages) ==
    LET width == IF widthMm.finite THEN widthMm.tenths ELSE 0
        height == IF heightMm.finite THEN heightMm.tenths ELSE 0
        validBoundsWidth == IF width - 20 > 0 THEN width - 20 ELSE 0
        validBoundsHeight == IF height - 20 > 0 THEN height - 20 ELSE 0
        \* escapeXml: & < > " ' become entities
        escapeXml(value) ==
            [k \in 1..Len(value) |->
                IF value[k] = "&" THEN "&amp;"
                ELSE IF value[k] = "<" THEN "&lt;"
                ELSE IF value[k] = ">" THEN "&gt;"
                ELSE IF value[k] = "\"" THEN "&quot;"
                ELSE IF value[k] = "'" THEN "&apos;"
                ELSE value[k]]
    IN [NoContent EXCEPT
           !.kind = "aml", !.labelName = escapeXml(name), !.pages = base64Pages,
           !.aml = [written |-> TRUE,
                    labelHeight |-> toFixed(height, 10, 3),
                    labelWidth |-> toFixed(width, 10, 3),
                    validBoundsWidth |-> toFixed(validBoundsWidth, 10, 0),
                    validBoundsHeight |-> toFixed(validBoundsHeight, 10, 0),
                    displaySizeIn |-> <<toFixed(width, 254, 3),
                                        toFixed(height, 254, 3)>>,
                    showDisplayIn |-> <<toFixed(width, 254, 2),
                                        toFixed(height, 254, 2)>>,
                    pages |-> [k \in 1..Len(base64Pages) |->
                                  buildAmlPageXml(width, height, base64Pages[k])]]]

\* customPaperSize when printSettings has none: { width: 40, height: 30 }
defaultPaperSize ==
    [width |-> [finite |-> TRUE, tenths |-> 400],
     height |-> [finite |-> TRUE, tenths |-> 300]]

\* the blob of zip.generateAsync
zipContent(entries) == [NoContent EXCEPT !.kind = "zip", !.entries = entries]

\* the mutation of zipFile: the entry is put before the others
zipFileFirst(zip, name, data) == <<[name |-> name, data |-> data]>> \o zip

\* zip.file(name, data): an entry of the same name is replaced
zipFile(zip, name, data) ==
    IF \E k \in 1..Len(zip) : zip[k].name = name
    THEN [k \in 1..Len(zip) |-> IF zip[k].name = name THEN [name |-> name, data |-> data] ELSE zip[k]]
    ELSE Append(zip, [name |-> name, data |-> data])

\* link.download = filename; link.click()
download(run, filename, content) ==
    [run EXCEPT !.downloads = Append(@, [name |-> filename, content |-> content])]

\* the export format a running invocation writes with: the constant
\* exportFormat of the render whose handleExport was invoked
liveExportFormat(run) == exportFormatOf(printSettings)

closureExportFormat(run) == run.exportFormat

\* the next iteration of a for loop over uniqueItems: the next toPng call,
\* or the code after the loop
nextItemStopsEarly(run) ==
    IF run.idx + 1 < Len(run.uniqueItems)
    THEN [run EXCEPT !.idx = @ + 1, !.phase = "toPng"]
    ELSE IF run.exportAsZip THEN [run EXCEPT !.phase = "generateAsync"]
    ELSE [run EXCEPT !.phase = "fulfilled"]

nextItem(run) ==
    IF run.idx < Len(run.uniqueItems)
    THEN [run EXCEPT !.idx = @ + 1, !.phase = "toPng"]
    ELSE IF run.exportAsZip THEN [run EXCEPT !.phase = "generateAsync"]
    ELSE [run EXCEPT !.phase = "fulfilled"]

\* handleExport() up to its first await: the run of the invocation
startExport(settings, renderedItems) ==
    LET unique == getUniqueExportItems(renderedItems)
        run == [exportFormat |-> exportFormatOf(settings),
                exportAsZip |-> exportAsZipOf(settings),
                uniqueItems |-> unique,
                idx |-> 1,
                phase |-> "toPng",
                zip |-> <<>>,
                downloads |-> <<>>,
                rasterFailed |-> FALSE,
                error |-> "none"]
    IN IF unique = <<>> THEN [run EXCEPT !.idx = 0, !.phase = "fulfilled"] ELSE run

\* the code after `await htmlToImage.toPng(...)` has resolved
afterToPng(run) ==
    LET current == run.uniqueItems[run.idx]
        url == toPngUrl(current.item)
        format == closureExportFormat(run)
    IN IF run.exportAsZip
       THEN IF format = PNG
            THEN [run EXCEPT !.phase = "fetch"]
            ELSE nextItem([run EXCEPT !.zip =
                     zipFile(@, labelFileName(current.safeName, AML),
                             buildAmlXml(current.safeName, defaultPaperSize.width,
                                 defaultPaperSize.height, <<url.base64>>))])
       ELSE IF format = PNG
            THEN nextItem(download(run, labelFileName(current.safeName, PNG), pngContent(url)))
            ELSE nextItem(download(run, labelFileName(current.safeName, AML),
                                   buildAmlXml(current.safeName, defaultPaperSize.width,
                                 defaultPaperSize.height, <<url.base64>>)))

\* the code after `await fetch(url)` and `await response.blob()` have resolved
afterFetch(run) ==
    LET current == run.uniqueItems[run.idx]
        url == toPngUrl(current.item)
    IN nextItem([run EXCEPT !.zip =
           zipFile(@, labelFileName(current.safeName, PNG), pngContent(url))])

\* the code after `await zip.generateAsync(...)` has resolved
afterGenerateAsync(run, typeName) ==
    [download(run, zipArchiveName(closureExportFormat(run), typeName), zipContent(run.zip))
        EXCEPT !.phase = "fulfilled"]

\* a rejection that is caught and skipped
awaitRejectedSwallowed(run, reason) == nextItem(run)

\* an awaited promise rejects (rasterFailed records a rejection of toPng):
\* no handler catches it, the promise of handleExport rejects with the same
\* reason
awaitRejected(run, reason) == [run EXCEPT !.phase = "rejected", !.error = reason]

(***************************************************************************)
(* Inputs of renderTemplateText                                            *)
(***************************************************************************)
TagB == <<"{", "b", "}">>

\* the fragments templates are assembled from
TemplatePieces ==
    LET TagA == <<"{", "a", "}">>
        TagVN == <<"{", "v", ".", "n", "}">>
        TagExtraK == <<"{", "e", "x", "t", "r", "a", ".", "k", "}">>
        BlockA == <<"{", "{", "a", "}", "}">>
    IN  { <<"{">>, <<"}">>, <<"x">>, <<"\n">>, TagA, TagB, TagVN, TagExtraK, BlockA }

RECURSIVE PieceSeqs(_)
PieceSeqs(n) ==
    IF n = 0 THEN {<<>>}
    ELSE LET shorter == PieceSeqs(n - 1)
         IN shorter \cup {Append(q, p) : q \in {r \in shorter : Len(r) = n - 1}, p \in TemplatePieces}

Templates == {ConcatAll(q) : q \in PieceSeqs(MaxPieces)}

\* a record with the given own properties; a property whose value is
\* "absent" is not an own property of the record
Absent == [t |-> "absent", s |-> <<>>, n |-> 0, f |-> NoProps]

MakeObject(keys, val) ==
    Object([k \in {x \in keys : val[x] # Absent} |-> val[k]])

VendorN == MakeObject({<<"n">>}, [k \in {<<"n">>} |-> Str(<<"N">>)])
ExtraWithK == MakeObject({<<"k">>}, [k \in {<<"k">>} |-> Str(<<"\"", "K", "\"">>)])

\* records that vary the scalar fields, and records that vary the nested
\* object and the extra map
Records ==
    LET ValuesA == { Absent, Str(<<"P">>), Str(TagB), Str(<<"$", "&">>) }
        ValuesB == { Absent, Num(7) }
        ValuesV == { Null, VendorN }
        ValuesExtra ==
            { Absent,
              Object(NoProps),
              ExtraWithK,
              MakeObject({<<"k">>}, [k \in {<<"k">>} |-> Str(<<"K">>)]) }
        RecordKeys == { <<"a">>, <<"b">>, <<"v">>, ExtraKey }
        MakeRecord(a, b, v, e) ==
            MakeObject(RecordKeys,
                       [k \in RecordKeys |->
                          CASE k = <<"a">> -> a
                            [] k = <<"b">> -> b
                            [] k = <<"v">> -> v
                            [] OTHER -> e])
    IN  {MakeRecord(a, b, VendorN, ExtraWithK) : a \in ValuesA, b \in ValuesB}
        \cup {MakeRecord(Str(<<"P">>), Num(7), v, e) : v \in ValuesV, e \in ValuesExtra}

NotRendered == [called |-> FALSE, out |-> Undefined]
NotComputed == [called |-> FALSE, out |-> <<>>]

\* a component that is not mounted
NotInUse == [inUse |-> FALSE]

\* every component but the named one is not in use
IdleExcept(component) ==
    /\ IF component = "dialog" THEN TRUE
       ELSE /\ template = <<>>
            /\ obj = Undefined
            /\ rendered = NotRendered
            /\ items = <<>>
            /\ uniqueItems = NotComputed
            /\ printSettings = [exportFormat |-> Undefined, exportAsZip |-> Undefined]
            /\ zipFileTypeName = <<>>
            /\ runs = <<>>
    /\ IF component = "sanitized" THEN TRUE ELSE sanitized = NotInUse
    /\ IF component = "presetStore" THEN TRUE ELSE presetStore = NotInUse
    /\ IF component = "amlDoc" THEN TRUE ELSE amlDoc = NotInUse
    /\ IF component = "vendorLogo" THEN TRUE ELSE vendorLogo = NotInUse
    /\ IF component = "titleFit" THEN TRUE ELSE titleFit = NotInUse
    /\ IF component = "headerBudget" THEN TRUE ELSE headerBudget = NotInUse
    /\ IF component = "raster" THEN TRUE ELSE raster = NotInUse
    /\ IF component = "labelDom" THEN TRUE ELSE labelDom = NotInUse
    /\ IF component = "tagLookup" THEN TRUE ELSE tagLookup = NotInUse

\* a step of the named component leaves the other components alone
OnlyChanges(component) ==
    /\ IF component = "dialog" THEN TRUE ELSE UNCHANGED dialogVars
    /\ IF component = "sanitized" THEN TRUE ELSE UNCHANGED sanitized
    /\ IF component = "presetStore" THEN TRUE ELSE UNCHANGED presetStore
    /\ IF component = "amlDoc" THEN TRUE ELSE UNCHANGED amlDoc
    /\ IF component = "vendorLogo" THEN TRUE ELSE UNCHANGED vendorLogo
    /\ IF component = "titleFit" THEN TRUE ELSE UNCHANGED titleFit
    /\ IF component = "headerBudget" THEN TRUE ELSE UNCHANGED headerBudget
    /\ IF component = "raster" THEN TRUE ELSE UNCHANGED raster
    /\ IF component = "labelDom" THEN TRUE ELSE UNCHANGED labelDom
    /\ IF component = "tagLookup" THEN TRUE ELSE UNCHANGED tagLookup

(***************************************************************************)
(* Specification of the template engine                                    *)
(***************************************************************************)
InitTemplate ==
    /\ template \in Templates
    /\ obj \in Records
    /\ rendered = NotRendered
    /\ items = <<>>
    /\ uniqueItems = NotComputed
    /\ printSettings = [exportFormat |-> Undefined, exportAsZip |-> Undefined]
    /\ zipFileTypeName = <<>>
    /\ runs = <<>>
    /\ IdleExcept("dialog")

\* a caller evaluates renderTemplateText(template, obj)
Render ==
    /\ ~rendered.called
    /\ rendered' = [called |-> TRUE, out |-> renderTemplateText(template, obj)]
    /\ UNCHANGED <<template, obj, items, uniqueItems, printSettings, zipFileTypeName, runs>>
    /\ OnlyChanges("dialog")

SpecTemplate == InitTemplate /\ [][Render]_vars

(***************************************************************************)
(* Claims about the template engine (specification SpecTemplate)           *)
(***************************************************************************)
Max(S) == CHOOSE x \in S : \A y \in S : x >= y

Opens(s) == {i \in 1..Len(s) : s[i] = "{"}
Closes(s) == {i \in 1..Len(s) : s[i] = "}"}

\* every brace of s belongs to a span {tag} whose tag holds no brace
RECURSIVE IsTagOnlyFrom(_, _)
IsTagOnlyFrom(s, i) ==
    IF i > Len(s) THEN TRUE
    ELSE IF s[i] = "}" THEN FALSE
    ELSE IF s[i] = "{"
         THEN LET j == SkipNonBrace(s, i + 1)
              IN j <= Len(s) /\ s[j] = "}" /\ IsTagOnlyFrom(s, j + 1)
    ELSE IsTagOnlyFrom(s, i + 1)

\* the tags of a tag-only template
TagsOf(s) ==
    {Slice(s, i + 1, SkipNonBrace(s, i + 1) - 1) : i \in Opens(s)}

Resolves(tag, o) ==
    LET v == getTagValue(tag, o) IN ~IsThrow(v) /\ v # Sentinel

\* a tag-only template with each {tag} replaced by String(value)
RECURSIVE TagsReplacedFrom(_, _, _)
TagsReplacedFrom(s, i, o) ==
    IF i > Len(s) THEN <<>>
    ELSE IF s[i] = "{"
         THEN LET j == SkipNonBrace(s, i + 1)
              IN JsString(getTagValue(Slice(s, i + 1, j - 1), o))
                 \o TagsReplacedFrom(s, j + 1, o)
    ELSE <<s[i]>> \o TagsReplacedFrom(s, i + 1, o)

\* C1: for a template whose only brace spans are single tags, each resolving
\* to a non-sentinel value, the output is the template with every {tag}
\* replaced by String(value) and all other text unchanged, whatever
\* characters the values hold.
C1_TagsReplacedByValue ==
    (/\ rendered.called
     /\ IsTagOnlyFrom(template, 1)
     /\ Opens(template) # {}
     /\ \A tag \in TagsOf(template) : Resolves(tag, obj))
    => rendered.out = Str(TagsReplacedFrom(template, 1, obj))

\* the template is T1 {pre{tag}post} T2 with brace-free T1, pre, tag, post, T2
IsSingleBlock(s) ==
    /\ Cardinality(Opens(s)) = 2
    /\ Cardinality(Closes(s)) = 2
    /\ Max(Opens(s)) < Min(Closes(s))

BlockTag(s) == Slice(s, Max(Opens(s)) + 1, Min(Closes(s)) - 1)

\* the block removed when its tag is the sentinel, else pre + value + post
BlockExpected(s, o) ==
    LET o1 == Min(Opens(s))
        o2 == Max(Opens(s))
        c1 == Min(Closes(s))
        c2 == Max(Closes(s))
        v == getTagValue(BlockTag(s), o)
    IN Slice(s, 1, o1 - 1)
       \o (IF v = Sentinel THEN <<>>
           ELSE Slice(s, o1 + 1, o2 - 1) \o JsString(v) \o Slice(s, c1 + 1, c2 - 1))
       \o Slice(s, c2 + 1, Len(s))

\* C2: an optional block {pre{tag}post}, pre and post any brace-free text
\* (line breaks included), disappears entirely when tag resolves to the
\* sentinel and is replaced by pre + String(v) + post when it resolves to v.
C2_OptionalBlockRendered ==
    (/\ rendered.called
     /\ IsSingleBlock(template)
     /\ ~IsThrow(getTagValue(BlockTag(template), obj)))
    => rendered.out = Str(BlockExpected(template, obj))

\* every match replaced at its own position by the text substituted for it
RECURSIVE PositionalFrom(_, _, _)
PositionalFrom(s, i, o) ==
    IF i > Len(s) THEN <<>>
    ELSE LET e == MatchSpanAt(s, i)
         IN IF e = 0 THEN <<s[i]>> \o PositionalFrom(s, i + 1, o)
            ELSE LET m == SubSeq(s, i, e)
                     r == matchReplacement(m, o)
                 IN (IF r.t = "string" THEN r.s ELSE m) \o PositionalFrom(s, e + 1, o)

\* the texts substituted for the matches of s
Replacements(s, o) ==
    LET ms == matchAllSpans(s)
    IN {matchReplacement(ms[k], o) : k \in 1..Len(ms)}

\* C3: substituted content is never re-scanned: every tag or block of the
\* template is replaced at its own position, also when a substituted value
\* holds text identical to a later tag or block. (Stated for replacement
\* texts without a dollar sign, whose handling is the subject of C1.)
C3_NoRescan ==
    (/\ rendered.called
     /\ \A r \in Replacements(template, obj) :
            ~IsThrow(r) /\ (r.t = "string" => CountChar(r.s, "$") = 0))
    => rendered.out = Str(PositionalFrom(template, 1, obj))

\* nesting depth after position i
Depth(s, i) ==
    Cardinality({k \in 1..i : s[k] = "{"}) - Cardinality({k \in 1..i : s[k] = "}"})

\* position of the brace closing the brace opened at i, 0 when it is never
\* closed
CloseOf(s, i) ==
    LET cs == {j \in (i + 1)..Len(s) : Depth(s, j) = Depth(s, i - 1)}
    IN IF cs = {} THEN 0 ELSE Min(cs)

\* the malformed spans of s: an outermost brace pair that nests three
\* levels or holds more than one nested "{", and the text from an opening
\* brace that is never closed
MalformedSpans(s) ==
    {SubSeq(s, i, CloseOf(s, i)) :
        i \in {k \in Opens(s) :
                 /\ Depth(s, k - 1) = 0
                 /\ CloseOf(s, k) # 0
                 /\ \/ \E j \in k..CloseOf(s, k) : Depth(s, j) >= 3
                    \/ Cardinality({j \in k..CloseOf(s, k) : s[j] = "{"}) >= 3}}
    \cup {SubSeq(s, i, Len(s)) :
            i \in {k \in Opens(s) : Depth(s, k - 1) = 0 /\ CloseOf(s, k) = 0}}

\* C4: every malformed span (unbalanced, more than one nested "{" inside an
\* outer pair, or nested three or more levels) is in the output verbatim and
\* rendering does not crash.
C4_MalformedLeftVerbatim ==
    (rendered.called /\ MalformedSpans(template) # {})
    => /\ ~IsThrow(rendered.out)
       /\ \A sp \in MalformedSpans(template) : IndexOf(rendered.out.s, sp) # 0

\* C5: renderTemplateText returns a string for every template and record,
\* also when the extra map is absent, an extra value is absent or not valid
\* JSON, or a nested object is null or missing.
C5_ResolutionGapsNeverThrow ==
    rendered.called => rendered.out.t = "string"

(***************************************************************************)
(* Specification of the export filenames                                   *)
(***************************************************************************)

Elements ==
    LET \* the data-aml-name attributes of the rendered labels
        RawNames ==
            { <<>>,
              <<"a">>,
              <<"a", " ">>,
              <<"a", ".">>,
              <<"a", "0", "1">>,
              <<"a", "/">>,
              <<"a", "-">>,
              <<".">>,
              <<"l", "a", "b", "e", "l", "-", "2">> }
        \* the content of a rendered label, apart from its name
        Bodies == {1, 2}
    IN  [amlName : RawNames, body : Bodies]

RECURSIVE SeqsUpTo(_, _)
SeqsUpTo(S, n) ==
    IF n = 0 THEN {<<>>}
    ELSE LET shorter == SeqsUpTo(S, n - 1)
         IN shorter \cup {Append(q, e) : q \in {r \in shorter : Len(r) = n - 1}, e \in S}

InitNames ==
    /\ template = <<>>
    /\ obj = Undefined
    /\ rendered = NotRendered
    /\ items \in SeqsUpTo(Elements, MaxItems)
    /\ uniqueItems = NotComputed
    /\ printSettings = [exportFormat |-> Undefined, exportAsZip |-> Undefined]
    /\ zipFileTypeName = <<>>
    /\ runs = <<>>
    /\ IdleExcept("dialog")

\* an export evaluates getUniqueExportItems() on the rendered labels
ComputeUniqueItems ==
    /\ ~uniqueItems.called
    /\ uniqueItems' = [called |-> TRUE, out |-> getUniqueExportItems(items)]
    /\ UNCHANGED <<template, obj, rendered, items, printSettings, zipFileTypeName, runs>>
    /\ OnlyChanges("dialog")

SpecNames == InitNames /\ [][ComputeUniqueItems]_vars

(***************************************************************************)
(* Claims about the export filenames (specification SpecNames)             *)
(***************************************************************************)
\* k written with at least two digits
TwoDigits(k) ==
    IF k < 100 THEN <<DigitChars[(k \div 10) + 1], DigitChars[(k % 10) + 1]>> ELSE NatToStr(k)

\* the k-th name of the sequence B, B01, B02, ...
Candidate(B, k) == IF k = 0 THEN B ELSE B \o TwoDigits(k)

\* base name of the i-th unique item
BaseOf(u, i) == exportBaseName(u[i].item, i)

\* names given to the unique items before the i-th
EarlierNames(u, i) == {u[j].safeName : j \in 1..(i - 1)}

\* number of unique items before the i-th that have its base name
EarlierSameBase(u, i) == Cardinality({j \in 1..(i - 1) : BaseOf(u, j) = BaseOf(u, i)})

\* C9 as stated: the labels whose raw names sanitize to one base name B are
\* named B, B01, B02, ... in item order, the k-th later one with suffix k.
C9_SuffixIsRankAmongSameBase ==
    uniqueItems.called =>
        \A i \in 1..Len(uniqueItems.out) :
            uniqueItems.out[i].safeName
                = Candidate(BaseOf(uniqueItems.out, i), EarlierSameBase(uniqueItems.out, i))

\* C9 amended: every label gets the first name of B, B01, B02, ... (the
\* number padded to at least two digits) that no earlier label of the export
\* was given; and when no name given to a label of another base lies in
\* that sequence, the labels of base B are named B, B01, B02, ... in order.
C9_FirstFreeCandidate ==
    uniqueItems.called =>
        LET u == uniqueItems.out
        IN \A i \in 1..Len(u) :
            LET B == BaseOf(u, i)
                free == {k \in 0..Len(u) : Candidate(B, k) \notin EarlierNames(u, i)}
                foreign == {u[j].safeName : j \in {x \in 1..(i - 1) : BaseOf(u, x) # B}}
            IN /\ u[i].safeName = Candidate(B, Min(free))
               /\ (\A k \in 0..Len(u) : Candidate(B, k) \notin foreign)
                    => u[i].safeName = Candidate(B, EarlierSameBase(u, i))

\* two labels share a base name and the later one was pushed past its rank,
\* to suffix 02, by an earlier label whose own name looks like a suffixed one
C9_Witness ==
    /\ uniqueItems.called
    /\ \E i \in 1..Len(uniqueItems.out) :
          /\ EarlierSameBase(uniqueItems.out, i) = 1
          /\ uniqueItems.out[i].safeName = Candidate(BaseOf(uniqueItems.out, i), 2)

\* C10: the filenames given within one export are pairwise distinct, the
\* collision loop ends (after at most one try per name already given), and
\* every label that is not a duplicate gets a name.
C10_NamesDistinct ==
    uniqueItems.called =>
        LET u == uniqueItems.out
        IN /\ \A i, j \in 1..Len(u) : i # j => u[i].safeName # u[j].safeName
           /\ \A i \in 1..Len(u) : u[i].nameSuffix <= i
           /\ \A i \in 1..Len(u) : u[i].safeName # <<>>
           /\ \A k \in 1..Len(items) : \E i \in 1..Len(u) : u[i].item = items[k]

\* an empty name fell back to a label-<n> name that an earlier label had
\* taken, and the loop found it a free name
C10_Witness ==
    /\ uniqueItems.called
    /\ \E i \in 1..Len(uniqueItems.out) :
          /\ uniqueItems.out[i].item.amlName = <<>>
          /\ uniqueItems.out[i].nameSuffix > 1

\* the positions of the labels that are not equal to an earlier label
FirstOccurrences(q) == {k \in 1..Len(q) : \A j \in 1..(k - 1) : q[j] # q[k]}

\* the k-th smallest member of a set of numbers
RECURSIVE KthOf(_, _)
KthOf(S, k) == IF k = 1 THEN Min(S) ELSE KthOf(S \ {Min(S)}, k - 1)

\* C11: the labels an export rasterizes are exactly the first occurrences of
\* each class of structurally equal labels, in their original order: a
\* label equal to an earlier one is left out, a label that differs from all
\* earlier ones is kept.
C11_FirstOccurrencesKept ==
    uniqueItems.called =>
        LET u == uniqueItems.out
            first == FirstOccurrences(items)
        IN /\ Len(u) = Cardinality(first)
           /\ \A i \in 1..Len(u) : u[i].item = items[KthOf(first, i)]

\* three labels of which the third is a copy of the first and the second
\* differs from it by its name only: two labels are rasterized
C11_Witness ==
    /\ uniqueItems.called
    /\ Len(items) = 3
    /\ items[3] = items[1]
    /\ items[2].body = items[1].body
    /\ items[2] # items[1]
    /\ Len(uniqueItems.out) = 2

\* previewFilenameBases: the loop over all rendered labels
RECURSIVE previewFilenameBases(_, _, _, _)
previewFilenameBases(rest, usedNames, names, idx) ==
    IF rest = <<>> THEN names
    ELSE LET rawName == trim(Head(rest).amlName)
             clean == sanitizePreviewFilename(rawName)
             baseName == IF clean # <<>> THEN clean ELSE labelFallback(idx)
             found == resolveCollision(baseName, baseName, 1, usedNames)
         IN previewFilenameBases(Tail(rest), usedNames \cup {found.safeName},
                                 Append(names, found.safeName), idx + 1)

\* previewExtension
previewExtension(settings) == IF exportFormatOf(settings) = PNG THEN <<".">> \o PNG ELSE <<".">> \o AML

\* C30: the filename shown under a label in the preview is the filename
\* under which the label is exported: same base, same collision suffix,
\* same extension, also with structurally equal labels and empty names.
C30_PreviewMatchesExport ==
    uniqueItems.called =>
        LET shown == previewFilenameBases(items, {}, <<>>, 1)
            first == FirstOccurrences(items)
        IN \A k \in 1..Len(uniqueItems.out) :
              shown[KthOf(first, k)] \o previewExtension(printSettings)
                 = labelFileName(uniqueItems.out[k].safeName, exportFormatOf(printSettings))

(***************************************************************************)
(* Specification of the export dialog                                      *)
(***************************************************************************)
ExportElements ==
    LET \* the rendered labels of the dialog: labels of one name and different
        \* content
        ExportBodies == {1, 2, 3}
    IN  [amlName : {<<"a">>}, body : ExportBodies]

TypeNames == { <<"s", "p", "o", "o", "l">>, <<"f", "i", "l", "a", "m", "e", "n", "t">> }

InitExport ==
    /\ template = <<>>
    /\ obj = Undefined
    /\ rendered = NotRendered
    /\ items \in SeqsUpTo(ExportElements, MaxExportItems)
    /\ uniqueItems = NotComputed
    /\ printSettings = [exportFormat |-> Undefined, exportAsZip |-> Undefined]
    /\ zipFileTypeName \in TypeNames
    /\ runs = <<>>
    /\ IdleExcept("dialog")

\* Radio.Group onChange: printSettings.exportFormat = e.target.value
SetExportFormat(format) ==
    /\ printSettings.exportFormat # Str(format)
    /\ printSettings' = [printSettings EXCEPT !.exportFormat = Str(format)]
    /\ UNCHANGED <<template, obj, rendered, items, uniqueItems, zipFileTypeName, runs>>
    /\ OnlyChanges("dialog")

\* Checkbox onChange: printSettings.exportAsZip = event.target.checked
SetExportAsZip(checked) ==
    /\ printSettings.exportAsZip # Bool(checked)
    /\ printSettings' = [printSettings EXCEPT !.exportAsZip = Bool(checked)]
    /\ UNCHANGED <<template, obj, rendered, items, uniqueItems, zipFileTypeName, runs>>
    /\ OnlyChanges("dialog")

\* Button onClick: handleExport() runs to its first await
ClickExport ==
    /\ Len(runs) < MaxRuns
    /\ runs' = Append(runs, startExport(printSettings, items))
    /\ UNCHANGED <<template, obj, rendered, items, uniqueItems, printSettings, zipFileTypeName>>
    /\ OnlyChanges("dialog")

ToPngResolved(r) ==
    /\ runs[r].phase = "toPng"
    /\ runs' = [runs EXCEPT ![r] = afterToPng(@)]
    /\ UNCHANGED <<template, obj, rendered, items, uniqueItems, printSettings, zipFileTypeName>>
    /\ OnlyChanges("dialog")

ToPngRejected(r) ==
    /\ runs[r].phase = "toPng"
    /\ runs' = [runs EXCEPT ![r] = awaitRejected([@ EXCEPT !.rasterFailed = TRUE], "toPng")]
    /\ UNCHANGED <<template, obj, rendered, items, uniqueItems, printSettings, zipFileTypeName>>
    /\ OnlyChanges("dialog")

FetchResolved(r) ==
    /\ runs[r].phase = "fetch"
    /\ runs' = [runs EXCEPT ![r] = afterFetch(@)]
    /\ UNCHANGED <<template, obj, rendered, items, uniqueItems, printSettings, zipFileTypeName>>
    /\ OnlyChanges("dialog")

FetchRejected(r) ==
    /\ runs[r].phase = "fetch"
    /\ runs' = [runs EXCEPT ![r] = awaitRejected(@, "fetch")]
    /\ UNCHANGED <<template, obj, rendered, items, uniqueItems, printSettings, zipFileTypeName>>
    /\ OnlyChanges("dialog")

GenerateAsyncResolved(r) ==
    /\ runs[r].phase = "generateAsync"
    /\ runs' = [runs EXCEPT ![r] = afterGenerateAsync(@, zipFileTypeName)]
    /\ UNCHANGED <<template, obj, rendered, items, uniqueItems, printSettings, zipFileTypeName>>
    /\ OnlyChanges("dialog")

SpecExport ==
    InitExport /\
    [][ \/ \E format \in {PNG, AML} : SetExportFormat(format)
        \/ \E checked \in BOOLEAN : SetExportAsZip(checked)
        \/ ClickExport
        \/ \E r \in 1..Len(runs) : ToPngResolved(r)
        \/ \E r \in 1..Len(runs) : ToPngRejected(r)
        \/ \E r \in 1..Len(runs) : FetchResolved(r)
        \/ \E r \in 1..Len(runs) : FetchRejected(r)
        \/ \E r \in 1..Len(runs) : GenerateAsyncResolved(r) ]_vars

(***************************************************************************)
(* Claims about the export dialog (specification SpecExport)               *)
(***************************************************************************)
\* the text after the last dot of a filename
Extension(name) ==
    LET dots == {i \in 1..Len(name) : name[i] = "."}
    IN IF dots = {} THEN <<>> ELSE Slice(name, Max(dots) + 1, Len(name))

\* the kind of content a format stands for
KindOf(format) == IF format = PNG THEN "png" ELSE "aml"

IsLabelFile(file, format) ==
    /\ Extension(file.name) = format
    /\ file.content.kind = KindOf(format)

IsLabelEntry(entry, format) ==
    /\ Extension(entry.name) = format
    /\ entry.data.kind = KindOf(format)

\* C6: every file of one export invocation, standalone download or zip
\* entry, has the extension and the content of the one format selected when
\* the invocation started, whatever is selected afterwards.
C6_FormatExclusive ==
    \A r \in 1..Len(runs) :
        LET run == runs[r]
        IN /\ \A k \in 1..Len(run.zip) : IsLabelEntry(run.zip[k], run.exportFormat)
           /\ \A k \in 1..Len(run.downloads) :
                IF run.exportAsZip
                THEN /\ run.downloads[k].content.kind = "zip"
                     /\ \A e \in 1..Len(run.downloads[k].content.entries) :
                            IsLabelEntry(run.downloads[k].content.entries[e], run.exportFormat)
                ELSE IsLabelFile(run.downloads[k], run.exportFormat)

\* an invocation is still running, has written a file, and the selected
\* format is no longer the one it started with
C6_Witness ==
    \E r \in 1..Len(runs) :
        /\ runs[r].phase = "toPng"
        /\ Len(runs[r].downloads) + Len(runs[r].zip) >= 1
        /\ exportFormatOf(printSettings) # runs[r].exportFormat

\* "<FORMAT> <resourceType> labels.zip"
ExpectedArchiveName(format, typeName) ==
    (IF format = PNG THEN <<"P", "N", "G">> ELSE <<"A", "M", "L">>)
    \o <<" ">> \o typeName \o <<" ", "l", "a", "b", "e", "l", "s", ".", "z", "i", "p">>

\* the distinct rendered labels
DistinctItems == {items[k] : k \in 1..Len(items)}

\* C7: in zip mode an export of N >= 1 unique labels that runs to its end
\* makes exactly one download, the archive "<FORMAT> <resourceType>
\* labels.zip" with exactly N entries, the k-th named <name of label k>.<format>
\* and holding label k; no label file is downloaded on its own.
C7_ZipOneArchive ==
    \A r \in 1..Len(runs) :
        LET run == runs[r]
            N == Len(run.uniqueItems)
        IN (run.exportAsZip /\ N >= 1) =>
            /\ N = Cardinality(DistinctItems)
            /\ run.phase # "fulfilled" => run.downloads = <<>>
            /\ run.phase = "fulfilled" =>
                /\ Len(run.downloads) = 1
                /\ run.downloads[1].name = ExpectedArchiveName(run.exportFormat, zipFileTypeName)
                /\ run.downloads[1].content.kind = "zip"
                /\ LET entries == run.downloads[1].content.entries
                   IN /\ Len(entries) = N
                      /\ \A k \in 1..N :
                            /\ entries[k].name = run.uniqueItems[k].safeName \o <<".">> \o run.exportFormat
                            /\ entries[k].data.kind = KindOf(run.exportFormat)
                            /\ entries[k].data.pages = <<run.uniqueItems[k].item>>
                      /\ \A j, k \in 1..N : j # k => entries[j].name # entries[k].name

\* three labels were exported as AML in zip mode
C7_Witness ==
    \E r \in 1..Len(runs) :
        /\ runs[r].exportAsZip
        /\ runs[r].exportFormat = AML
        /\ Len(runs[r].uniqueItems) = 3
        /\ runs[r].phase = "fulfilled"
        /\ Len(runs[r].downloads) = 1

\* C8: when the rasterization of a label fails, the invocation ends rejected
\* with that failure: it is not fulfilled, it does not go on to a later
\* label or try again, the labels before the failing one are the only ones
\* delivered, and in zip mode nothing is downloaded.
C8_RasterFailurePropagates ==
    \A r \in 1..Len(runs) :
        LET run == runs[r]
        IN run.rasterFailed =>
            /\ run.phase = "rejected"
            /\ run.error = "toPng"
            /\ run.exportAsZip => (run.downloads = <<>> /\ Len(run.zip) = run.idx - 1)
            /\ ~run.exportAsZip => Len(run.downloads) = run.idx - 1

\* the rasterization of the second of three labels failed
C8_Witness ==
    \E r \in 1..Len(runs) :
        /\ runs[r].rasterFailed
        /\ runs[r].idx = 2
        /\ Len(runs[r].uniqueItems) = 3

\* the number of labels of a run whose awaits have all resolved
Completed(run) ==
    IF run.phase \in {"toPng", "fetch", "rejected"} THEN run.idx - 1
    ELSE Len(run.uniqueItems)

\* the label files a run has written so far, in the order written
Written(run) ==
    IF run.exportAsZip
    THEN [k \in 1..Len(run.zip) |-> [name |-> run.zip[k].name, content |-> run.zip[k].data]]
    ELSE run.downloads

\* C23: within one export run the labels are processed one after the
\* other in item order: while label k is rasterized or fetched the files
\* written are those of labels 1..k-1, each label's index follows its
\* predecessor's, and the downloads or zip entries are in the order of the
\* unique labels.
C23_SequentialInOrder ==
    \A r \in 1..Len(runs) :
        LET run == runs[r]
            done == Completed(run)
            files == Written(run)
        IN /\ run.idx <= Len(run.uniqueItems)
           /\ Len(files) = done
           /\ \A k \in 1..done :
                /\ files[k].name = run.uniqueItems[k].safeName \o <<".">> \o run.exportFormat
                /\ files[k].content.pages = <<run.uniqueItems[k].item>>

\* in PNG zip mode the blob of the second label is being fetched and the
\* only entry written is the first label's
C23_Witness ==
    \E r \in 1..Len(runs) :
        /\ runs[r].exportAsZip
        /\ runs[r].phase = "fetch"
        /\ runs[r].idx = 2
        /\ Len(runs[r].uniqueItems) = 3
        /\ Len(runs[r].zip) = 1
        /\ runs[r].zip[1].name = runs[r].uniqueItems[1].safeName \o <<".">> \o PNG

\* ---------------------------------------------------------------------
\* The export button pressed again.  The button has no disabled or loading
\* state and handleExport keeps no record of a running invocation, so a
\* click while an invocation awaits starts another one.
\* ---------------------------------------------------------------------

InitReExport ==
    /\ InitExport
    /\ Len(items) = 2
    /\ items[1] # items[2]
    /\ zipFileTypeName = <<"s", "p", "o", "o", "l">>

\* Button onClick while an earlier handleExport() has not settled
ClickExportAgain ==
    /\ Len(runs) >= 1
    /\ Len(runs) < MaxRuns + 1
    /\ runs[Len(runs)].phase \in {"toPng", "fetch", "generateAsync"}
    /\ runs' = Append(runs, startExport(printSettings, items))
    /\ UNCHANGED <<template, obj, rendered, items, uniqueItems, printSettings, zipFileTypeName>>
    /\ OnlyChanges("dialog")

SpecReExport ==
    InitReExport /\
    [][ \/ \E format \in {PNG, AML} : SetExportFormat(format)
        \/ \E checked \in BOOLEAN : SetExportAsZip(checked)
        \/ ClickExport
        \/ \E r \in 1..Len(runs) : ToPngResolved(r)
        \/ \E r \in 1..Len(runs) : ToPngRejected(r)
        \/ \E r \in 1..Len(runs) : FetchResolved(r)
        \/ \E r \in 1..Len(runs) : FetchRejected(r)
        \/ \E r \in 1..Len(runs) : GenerateAsyncResolved(r)
        \/ ClickExportAgain ]_vars

\* the invocations of handleExport that have not settled
InProgress == {r \in 1..Len(runs) : runs[r].phase \in {"toPng", "fetch", "generateAsync"}}

\* C24: at every moment at most one export run is in progress and at most
\* one rasterization is in flight, also when the export button is pressed
\* again before an export has finished.
C24_ExportsMutuallyExclusive ==
    /\ Cardinality(InProgress) <= 1
    /\ Cardinality({r \in 1..Len(runs) : runs[r].phase = "toPng"}) <= 1

(***************************************************************************)
(* Specification of the sanitizers                                         *)
(***************************************************************************)

InitSanitize ==
    LET \* the names given to the sanitizers
        NameInputs == SeqsUpTo({"a", "A", " ", ".", "/", "&", "-", EAcute}, MaxNameLen)
    IN  /\ IdleExcept("sanitized")
        /\ sanitized \in {[fn |-> f, input |-> x, once |-> <<>>, twice |-> <<>>, applied |-> 0] :
                            f \in {"sanitizeFilename", "sanitizePreviewFilename", "slugifyVendorName"},
                            x \in NameInputs}

\* one call of the function the state names: on the input first, then on
\* the result of the first call
ApplySanitizeFilename ==
    /\ sanitized.fn = "sanitizeFilename"
    /\ sanitized.applied < 2
    /\ sanitized' = IF sanitized.applied = 0
                   THEN [sanitized EXCEPT !.once = sanitizeFilename(sanitized.input), !.applied = 1]
                   ELSE [sanitized EXCEPT !.twice = sanitizeFilename(sanitized.once), !.applied = 2]
    /\ OnlyChanges("sanitized")

ApplySanitizePreviewFilename ==
    /\ sanitized.fn = "sanitizePreviewFilename"
    /\ sanitized.applied < 2
    /\ sanitized' = IF sanitized.applied = 0
                   THEN [sanitized EXCEPT !.once = sanitizePreviewFilename(sanitized.input), !.applied = 1]
                   ELSE [sanitized EXCEPT !.twice = sanitizePreviewFilename(sanitized.once), !.applied = 2]
    /\ OnlyChanges("sanitized")

ApplySlugifyVendorName ==
    /\ sanitized.fn = "slugifyVendorName"
    /\ sanitized.applied < 2
    /\ sanitized' = IF sanitized.applied = 0
                   THEN [sanitized EXCEPT !.once = slugifyVendorName(sanitized.input), !.applied = 1]
                   ELSE [sanitized EXCEPT !.twice = slugifyVendorName(sanitized.once), !.applied = 2]
    /\ OnlyChanges("sanitized")

SpecSanitize ==
    InitSanitize
        /\ [][ApplySanitizeFilename \/ ApplySanitizePreviewFilename
                  \/ ApplySlugifyVendorName]_vars

(***************************************************************************)
(* Claims about the sanitizers (specification SpecSanitize)                *)
(***************************************************************************)
\* C12: each of sanitizeFilename, sanitizePreviewFilename and
\* slugifyVendorName is idempotent: applied to its own result it returns
\* that result.
C12_SanitizersIdempotent ==
    sanitized.applied = 2 => sanitized.twice = sanitized.once

(***************************************************************************)
(* Preset store of the QR code export dialogs (spool and filament)         *)
(*                                                                         *)
(* A preset is a record [id, name, settings]: id and name are those of     *)
(* labelSettings.printSettings, settings stands for the rest of the        *)
(* preset. presetStore holds                                               *)
(*   presetType   currentPresetType of the dialog                          *)
(*   persisted    the stored value of each settings key                    *)
(*   local        localCurrentPresets (defined is FALSE for undefined)     *)
(*   selected     selectedPresetState: kind "none" (undefined), "bare" (an *)
(*                id without a type prefix) or "typed" (type:id)           *)
(*   cur          curPreset of the last render                             *)
(*   dirty        a state setter was called since the last render          *)
(*   pendingSave  the write of a save that awaits its acknowledgement      *)
(*   ops          the number of handlers run so far                        *)
(*   nextId       the next value of uuidv4()                               *)
(***************************************************************************)
\* t("printing.generic.defaultSettings"), the localized default label
defaultPresetName == <<"D", "e", "f", "a", "u", "t">>

\* the settings key useGetPrintPresets / useSetPrintPresets is given for
\* the presets of a resource type
settingKeyOtherType(type) == IF type = "spool" THEN "image_presets_filament" ELSE "image_presets"

settingKey(type) == IF type = "spool" THEN "image_presets" ELSE "image_presets_filament"

otherPresetType(type) == IF type = "spool" THEN "filament" ELSE "spool"

\* a test that finds no default preset
isDefaultPresetNameNever(name) == FALSE

\* (name ?? "").trim().toLowerCase() equals the lower-cased default label
\* or "default"
isDefaultPresetName(name) ==
    LET lower(q) == [i \in 1..Len(q) |-> IF q[i] = "D" THEN "d" ELSE q[i]]
        normalizedName == lower(trim(name))
    IN \/ normalizedName = lower(trim(defaultPresetName))
       \/ normalizedName = <<"d", "e", "f", "a", "u", "l", "t">>

\* currentPresets = localCurrentPresets ?? remote presets of the own type
currentPresets(st) ==
    IF st.local.defined THEN st.local.list ELSE st.persisted[settingKey(st.presetType)]

\* otherPresets = remote presets of the other type ?? []
otherPresets(st) == st.persisted[settingKey(otherPresetType(st.presetType))]

\* parsePresetValue(selectedPresetState): ok is FALSE for undefined
parsePresetValue(st) ==
    CASE st.selected.kind = "none" -> [ok |-> FALSE, type |-> "", id |-> 0]
      [] st.selected.kind = "bare" -> [ok |-> TRUE, type |-> st.presetType, id |-> st.selected.id]
      [] OTHER -> [ok |-> TRUE, type |-> st.selected.type, id |-> st.selected.id]

\* toPresetValue(type, id) given to setSelectedPresetState
toPresetValue(type, id) == [kind |-> "typed", type |-> type, id |-> id]

\* the positions of the presets of a list that have the id
withId(list, id) == {i \in 1..Len(list) : list[i].id = id}

\* getNextPresetName(baseName, presets)
getNextPresetName(baseName, presets) ==
    LET trimmedBaseName == IF trim(baseName) # <<>> THEN trim(baseName) ELSE defaultPresetName
        hasSuffix(q) == /\ Len(q) >= 3
                        /\ q[Len(q) - 2] = "-"
                        /\ IsDigit(q[Len(q) - 1])
                        /\ IsDigit(q[Len(q)])
        normalizedBaseName == IF hasSuffix(trimmedBaseName)
                              THEN SubSeq(trimmedBaseName, 1, Len(trimmedBaseName) - 3)
                              ELSE trimmedBaseName
        suffixes == {StrToNat(SubSeq(trim(presets[i].name), Len(normalizedBaseName) + 2,
                                     Len(trim(presets[i].name)))) :
                        i \in {k \in 1..Len(presets) :
                                 /\ hasSuffix(trim(presets[k].name))
                                 /\ Len(trim(presets[k].name)) = Len(normalizedBaseName) + 3
                                 /\ SubSeq(trim(presets[k].name), 1, Len(normalizedBaseName))
                                        = normalizedBaseName}}
        maxSuffix == IF suffixes = {} THEN 0 ELSE CHOOSE x \in suffixes : \A y \in suffixes : x >= y
    IN normalizedBaseName \o <<"-">> \o padStart2(maxSuffix + 1)

\* an edit that replaces the selected preset of the other type's list
promoteIntoOtherList(st, preset) ==
    [st EXCEPT !.persisted[settingKey(otherPresetType(st.presetType))] =
                    [i \in 1..Len(@) |-> IF @[i].id = st.selected.id THEN preset ELSE @[i]],
               !.dirty = TRUE]

\* promotePresetToCurrentType(preset): the preset is appended to the current
\* type's list under a new id and selected
promotePresetToCurrentType(st, preset) ==
    [st EXCEPT !.local = [defined |-> TRUE,
                          list |-> Append(currentPresets(st), [preset EXCEPT !.id = st.nextId])],
               !.selected = toPresetValue(st.presetType, st.nextId),
               !.nextId = st.nextId + 1,
               !.dirty = TRUE]

\* the mutation of updateCurrentPreset: the edited preset is added to the
\* list under the id it has
updateCurrentPresetAppends(st, newSettings) ==
    [st EXCEPT !.local = [defined |-> TRUE, list |-> Append(currentPresets(st), newSettings)],
               !.dirty = TRUE]

\* updateCurrentPreset(newSettings)
updateCurrentPreset(st, newSettings) ==
    LET parsed == parsePresetValue(st)
        nextPresets == [i \in 1..Len(currentPresets(st)) |->
                            IF currentPresets(st)[i].id = parsed.id
                            THEN newSettings ELSE currentPresets(st)[i]]
    IN IF ~parsed.ok \/ parsed.type # st.presetType
       THEN promotePresetToCurrentType(st, newSettings)
       ELSE IF withId(currentPresets(st), parsed.id) # {}
            THEN [st EXCEPT !.local = [defined |-> TRUE, list |-> nextPresets], !.dirty = TRUE]
            ELSE promotePresetToCurrentType(st, newSettings)

\* a new preset that keeps the id of its source
buildNewPresetSameId(id, name, sourcePreset) == [sourcePreset EXCEPT !.name = name]

\* buildNewPreset(id, name, sourcePreset): the source's settings under a
\* new id and name
buildNewPreset(id, name, sourcePreset) == [sourcePreset EXCEPT !.id = id, !.name = name]

\* buildNewPreset(id, name) without a source preset
emptyPreset == [id |-> 0, name |-> <<>>, settings |-> 0]

\* the render of the dialog: the resolution of curPreset, with the state
\* setters it calls
renderPresets(st) ==
    LET cp == currentPresets(st)
        parsed == parsePresetValue(st)
        defaultPreset == buildNewPreset(st.nextId, defaultPresetName, emptyPreset)
        defaults == {i \in 1..Len(cp) : isDefaultPresetName(cp[i].name)}
        preferredPreset == IF defaults # {} THEN cp[Min(defaults)] ELSE cp[1]
        recovered == [st EXCEPT !.cur = preferredPreset,
                                !.selected = toPresetValue(st.presetType, preferredPreset.id),
                                !.dirty = TRUE]
        list == IF parsed.ok /\ parsed.type # st.presetType THEN otherPresets(st) ELSE cp
    IN IF cp = <<>>
       THEN [st EXCEPT !.local = [defined |-> TRUE, list |-> <<defaultPreset>>],
                       !.selected = toPresetValue(st.presetType, st.nextId),
                       !.cur = defaultPreset,
                       !.nextId = st.nextId + 1,
                       !.dirty = TRUE]
       ELSE IF parsed.ok /\ withId(list, parsed.id) # {}
            THEN [st EXCEPT !.cur = list[Min(withId(list, parsed.id))], !.dirty = FALSE]
            ELSE recovered

(***************************************************************************)
(* Specification of the preset store                                       *)
(***************************************************************************)

\* the dialog is mounted with the settings loaded; the selection is the one
\* saved by an earlier session, which may name a preset that is gone
InitPresets ==
    LET \* the stored lists of the own type: presets 1 and 2 with a plain name, the
        \* default name in other case and with white space around it, and the
        \* localized default label
        OwnStoredLists ==
            LET preset(id, name) == [id |-> id, name |-> name, settings |-> 0]
                plain == <<"X">>
                spaced == <<"d", "e", "f", "a", "u", "l", "t", " ">>
            IN { <<>>,
                 <<preset(1, plain)>>,
                 <<preset(1, plain), preset(2, spaced)>>,
                 <<preset(1, plain), preset(2, defaultPresetName)>>,
                 <<preset(1, spaced), preset(2, plain)>> }
        \* the stored lists of the other type
        OtherStoredLists == { <<>>, <<[id |-> 3, name |-> <<"X">>, settings |-> 0]>> }
    IN  /\ IdleExcept("presetStore")
        /\ \E type \in {"spool", "filament"},
              own \in OwnStoredLists,
              other \in OtherStoredLists,
              sel \in {[kind |-> "none", type |-> "", id |-> 0]}
                        \cup [kind : {"bare"}, type : {""}, id : {2}]
                        \cup [kind : {"typed"}, type : {"spool", "filament"}, id : {3, 9}] :
                presetStore =
                    [presetType |-> type,
                     persisted |-> (settingKey(type) :> own)
                                    @@ (settingKey(otherPresetType(type)) :> other),
                     local |-> [defined |-> FALSE, list |-> <<>>],
                     selected |-> sel,
                     cur |-> emptyPreset,
                     dirty |-> TRUE,
                     pendingSave |-> [active |-> FALSE, key |-> "", list |-> <<>>],
                     message |-> "none",
                     ops |-> 0,
                     nextId |-> 5]

\* a handler of the dialog runs on a rendered dialog
HandlerReady ==
    /\ ~presetStore.dirty
    /\ presetStore.ops < MaxOps

\* the state after a handler that has set it to st
afterHandler(st) == [st EXCEPT !.ops = @ + 1]

RenderPresets ==
    /\ presetStore.dirty
    /\ presetStore' = renderPresets(presetStore)
    /\ OnlyChanges("presetStore")

\* Select onChange: setSelectedPresetState(value), value one of the options
SelectPreset(type, id) ==
    /\ HandlerReady
    /\ id \in {q.id : q \in {(IF type = presetStore.presetType
                               THEN currentPresets(presetStore)
                               ELSE otherPresets(presetStore))[i] :
                    i \in 1..Len(IF type = presetStore.presetType
                                 THEN currentPresets(presetStore)
                                 ELSE otherPresets(presetStore))}}
    /\ presetStore.selected # toPresetValue(type, id)
    /\ presetStore' = afterHandler([presetStore EXCEPT !.selected = toPresetValue(type, id),
                                                     !.dirty = TRUE])
    /\ OnlyChanges("presetStore")

\* addNewPreset: the selected preset is found by getSelectedPreset
AddNewPreset ==
    /\ HandlerReady
    /\ LET st == presetStore
           parsed == parsePresetValue(st)
           list == IF parsed.type = st.presetType THEN currentPresets(st) ELSE otherPresets(st)
           found == parsed.ok /\ withId(list, parsed.id) # {}
           selectedPreset == IF found THEN list[Min(withId(list, parsed.id))] ELSE emptyPreset
           basePresetName == IF found THEN selectedPreset.name ELSE defaultPresetName
           newPreset == buildNewPreset(st.nextId,
                                       getNextPresetName(basePresetName, currentPresets(st)),
                                       selectedPreset)
       IN presetStore' = afterHandler(
              [st EXCEPT !.local = [defined |-> TRUE,
                                    list |-> Append(currentPresets(st), newPreset)],
                         !.selected = toPresetValue(st.presetType, st.nextId),
                         !.nextId = st.nextId + 1,
                         !.dirty = TRUE])
    /\ OnlyChanges("presetStore")

\* duplicateCurrentPreset: a copy of curPreset under a new id
DuplicateCurrentPreset ==
    /\ HandlerReady
    /\ presetStore' = afterHandler(promotePresetToCurrentType(presetStore, presetStore.cur))
    /\ OnlyChanges("presetStore")

\* a settings callback: curPreset is changed, then updateCurrentPreset(curPreset)
EditSettings(value) ==
    /\ HandlerReady
    /\ value # presetStore.cur.settings
    /\ presetStore' = afterHandler(updateCurrentPreset(presetStore,
                                    [presetStore.cur EXCEPT !.settings = value]))
    /\ OnlyChanges("presetStore")

\* the name Input onChange: curPreset's name is changed, then
\* updateCurrentPreset(curPreset)
RenamePreset(name) ==
    /\ HandlerReady
    /\ name # presetStore.cur.name
    /\ presetStore' = afterHandler(updateCurrentPreset(presetStore,
                                    [presetStore.cur EXCEPT !.name = name]))
    /\ OnlyChanges("presetStore")

\* deleteCurrentPreset, offered when the list has more than one preset
DeleteCurrentPreset ==
    /\ HandlerReady
    /\ Len(currentPresets(presetStore)) > 1
    /\ parsePresetValue(presetStore).ok
    /\ parsePresetValue(presetStore).type = presetStore.presetType
    /\ presetStore' =
          afterHandler([presetStore EXCEPT
              !.local = [defined |-> TRUE,
                         list |-> SelectSeq(currentPresets(presetStore),
                                            LAMBDA q : q.id # parsePresetValue(presetStore).id)],
              !.selected = [kind |-> "none", type |-> "", id |-> 0],
              !.dirty = TRUE])
    /\ OnlyChanges("presetStore")

\* the save button, enabled by hasUnsavedChanges: savePresetsRemote() up to
\* its await
ClickSave ==
    /\ HandlerReady
    /\ ~presetStore.pendingSave.active
    /\ presetStore.local.defined
    /\ presetStore.local.list # presetStore.persisted[settingKey(presetStore.presetType)]
    /\ presetStore' = [presetStore EXCEPT
                          !.ops = @ + 1,
                          !.pendingSave = [active |-> TRUE,
                                           key |-> settingKey(presetStore.presetType),
                                           list |-> presetStore.local.list]]
    /\ OnlyChanges("presetStore")

\* the mutation of SaveSettled: a failed write discards the working copy
SaveSettledDiscards(ok) ==
    /\ presetStore.pendingSave.active
    /\ presetStore' =
          [presetStore EXCEPT
              !.persisted[presetStore.pendingSave.key] =
                  IF ok THEN presetStore.pendingSave.list ELSE @,
              !.local = [defined |-> FALSE, list |-> <<>>],
              !.pendingSave = [active |-> FALSE, key |-> "", list |-> <<>>],
              !.message = IF ok THEN "success" ELSE "error",
              !.dirty = TRUE]
    /\ OnlyChanges("presetStore")

\* the write is acknowledged: the setting holds the written list,
\* savePresetsRemote continues with setLocalCurrentPresets(undefined) and
\* the onClick of the save button shows messageApi.success; or the write
\* fails, savePresetsRemote rejects at its await and the catch of the
\* onClick shows messageApi.error
SaveSettled(ok) ==
    /\ presetStore.pendingSave.active
    /\ presetStore' =
          IF ok
          THEN [presetStore EXCEPT
                   !.persisted[presetStore.pendingSave.key] = presetStore.pendingSave.list,
                   !.local = [defined |-> FALSE, list |-> <<>>],
                   !.pendingSave = [active |-> FALSE, key |-> "", list |-> <<>>],
                   !.message = "success",
                   !.dirty = TRUE]
          ELSE [presetStore EXCEPT
                   !.pendingSave = [active |-> FALSE, key |-> "", list |-> <<>>],
                   !.message = "error"]
    /\ OnlyChanges("presetStore")

SpecPresets ==
    InitPresets /\
    [][ \/ RenderPresets
        \/ \E type \in {"spool", "filament"}, id \in 1..presetStore.nextId : SelectPreset(type, id)
        \/ AddNewPreset
        \/ DuplicateCurrentPreset
        \/ EditSettings(1)
        \/ RenamePreset(<<"Y">>)
        \/ DeleteCurrentPreset
        \/ ClickSave
        \/ \E ok \in BOOLEAN : SaveSettled(ok) ]_vars

(***************************************************************************)
(* Claims about the preset store (specification SpecPresets)               *)
(***************************************************************************)
\* the ids of the presets of both lists, and the id the selection names
KnownIds(st) ==
    {currentPresets(st)[i].id : i \in 1..Len(currentPresets(st))}
        \cup {otherPresets(st)[i].id : i \in 1..Len(otherPresets(st))}
        \cup {st.selected.id}

\* the selection names a preset of the other type's list
CrossTypeSelected(st) ==
    /\ st.selected.kind = "typed"
    /\ st.selected.type # st.presetType
    /\ \E i \in 1..Len(otherPresets(st)) : otherPresets(st)[i].id = st.selected.id

\* C13: an edit made while the selected preset belongs to the other type's
\* list appends to the current type's list one preset that carries the
\* edited settings under an id found in neither list, selects it, and
\* leaves the other type's list, local view and persisted value, unchanged.
C13_CrossTypeEditPromotes ==
    [][((EditSettings(1) \/ RenamePreset(<<"Y">>)) /\ CrossTypeSelected(presetStore)) =>
        LET st == presetStore
            after == presetStore'
            list == currentPresets(after)
            promoted == list[Len(list)]
        IN /\ Len(list) = Len(currentPresets(st)) + 1
           /\ SubSeq(list, 1, Len(list) - 1) = currentPresets(st)
           /\ promoted.id \notin KnownIds(st)
           /\ \/ /\ promoted.settings = 1
                 /\ promoted.name = st.cur.name
              \/ /\ promoted.settings = st.cur.settings
                 /\ promoted.name = <<"Y">>
           /\ after.selected = [kind |-> "typed", type |-> st.presetType, id |-> promoted.id]
           /\ otherPresets(after) = otherPresets(st)
           /\ after.persisted = st.persisted]_vars

\* the first handler run was an edit of a preset selected from the other
\* type's list: its edited copy is the last preset of the local list
C13_Witness ==
    /\ presetStore.ops = 1
    /\ presetStore.local.defined
    /\ LET p == presetStore.local.list[Len(presetStore.local.list)]
       IN /\ p.settings = 1
          /\ p.id = presetStore.nextId - 1
          /\ presetStore.selected.id = p.id
          /\ presetStore.selected.type = presetStore.presetType
          /\ \E i \in 1..Len(otherPresets(presetStore)) :
                otherPresets(presetStore)[i] = [p EXCEPT !.id = 3, !.settings = 0]

\* C14: a render that finds the loaded list of the current type empty
\* creates one default preset under a new id, stores it in the local
\* working copy only and selects it: afterwards the list has exactly that
\* preset and the selection names it; a render that finds presets creates
\* none.
C14_EmptyListSeeded ==
    [][RenderPresets =>
        LET st == presetStore
            after == presetStore'
        IN IF currentPresets(st) = <<>>
           THEN /\ after.local.defined
                /\ Len(currentPresets(after)) = 1
                /\ currentPresets(after)[1].name = <<"D", "e", "f", "a", "u", "t">>
                /\ currentPresets(after)[1].id \notin KnownIds(st)
                /\ after.selected = [kind |-> "typed", type |-> st.presetType,
                                     id |-> currentPresets(after)[1].id]
                /\ after.cur = currentPresets(after)[1]
                /\ after.persisted = st.persisted
           ELSE currentPresets(after) = currentPresets(st)]_vars

\* the dialog was mounted on an empty stored list and has been rendered
\* again after the seeding: one default preset, local only, selected
C14_Witness ==
    /\ ~presetStore.dirty
    /\ presetStore.ops = 0
    /\ presetStore.persisted[IF presetStore.presetType = "spool"
                             THEN "image_presets" ELSE "image_presets_filament"] = <<>>
    /\ presetStore.local.defined
    /\ Len(presetStore.local.list) = 1
    /\ presetStore.selected.id = presetStore.local.list[1].id
    /\ presetStore.cur = presetStore.local.list[1]

\* the selection names a preset that the list it points into does not hold
StaleSelection(st) ==
    /\ st.selected.kind # "none"
    /\ LET list == IF st.selected.kind = "typed" /\ st.selected.type # st.presetType
                   THEN otherPresets(st) ELSE currentPresets(st)
       IN \A i \in 1..Len(list) : list[i].id # st.selected.id

\* the name with its letters in lower case
LowerCased(name) == [i \in 1..Len(name) |-> IF name[i] = "D" THEN "d" ELSE name[i]]

\* the names that are the default name once in lower case
DefaultNamesLowerCased == { <<"d", "e", "f", "a", "u", "l", "t">>, <<"d", "e", "f", "a", "u", "t">> }

\* the preset the recovery is to pick, for a test of the default name
Preferred(list, IsDefault(_)) ==
    LET defaults == {i \in 1..Len(list) : IsDefault(list[i].name)}
    IN IF defaults # {} THEN list[Min(defaults)] ELSE list[1]

\* the recovery of a stale selection picks the preferred preset of the
\* current type's list and rewrites the selection to it
RecoversTo(IsDefault(_)) ==
    (RenderPresets /\ currentPresets(presetStore) # <<>> /\ StaleSelection(presetStore)) =>
        LET pick == Preferred(currentPresets(presetStore), IsDefault)
        IN /\ presetStore'.cur = pick
           /\ presetStore'.selected
                = [kind |-> "typed", type |-> presetStore.presetType, id |-> pick.id]
           /\ ~StaleSelection(presetStore')

\* C15 as stated: a stale selection on a non-empty list is recovered to the
\* first preset of the current type whose name equals, letter case apart,
\* "default" or the localized default label, else to the first preset.
C15_RecoversToNameEqualToDefault ==
    [][RecoversTo(LAMBDA name : LowerCased(name) \in DefaultNamesLowerCased)]_vars

\* C15 amended: as above, with the name compared after the white space
\* around it is removed.
C15_RecoversToTrimmedDefault ==
    [][RecoversTo(LAMBDA name : LowerCased(trim(name)) \in DefaultNamesLowerCased)]_vars

\* the dialog was mounted with a stale selection and the render has
\* selected the second preset of the list, the one with the default name
C15_Witness ==
    /\ presetStore.ops = 0
    /\ ~presetStore.local.defined
    /\ presetStore.selected = [kind |-> "typed", type |-> presetStore.presetType, id |-> 2]
    /\ presetStore.cur.id = 2
    /\ currentPresets(presetStore)[1].id = 1

\* the settings key of the presets of a resource type
KeyOf(type) == IF type = "spool" THEN "image_presets" ELSE "image_presets_filament"

\* C16: no operation but the save writes a persisted list; the save writes
\* the local working copy as it is when the save is started, to the key
\* of the current type, and leaves the other key's value alone.
C16_OnlySaveWrites ==
    [][LET st == presetStore
           after == presetStore'
       IN /\ (~st.pendingSave.active /\ after.pendingSave.active) =>
                /\ st.local.defined
                /\ after.pendingSave.list = st.local.list
                /\ after.pendingSave.key = KeyOf(st.presetType)
          /\ after.persisted # st.persisted =>
                /\ st.pendingSave.active
                /\ st.pendingSave.key = KeyOf(st.presetType)
                /\ after.persisted[KeyOf(st.presetType)] = st.pendingSave.list
                /\ \A key \in DOMAIN st.persisted :
                      key # KeyOf(st.presetType) => after.persisted[key] = st.persisted[key]]_vars

\* a preset was edited locally and the save was acknowledged: the persisted
\* list of the current type holds the edited preset
C16_Witness ==
    /\ ~presetStore.local.defined
    /\ ~presetStore.pendingSave.active
    /\ \E i \in 1..Len(presetStore.persisted[KeyOf(presetStore.presetType)]) :
          presetStore.persisted[KeyOf(presetStore.presetType)][i].settings = 1

\* hasUnsavedChanges: a working copy exists and differs from the stored list
hasUnsavedChanges(st) ==
    st.local.defined /\ st.local.list # st.persisted[settingKey(st.presetType)]

\* C27: no edit is lost across a save: when a save completes, the working
\* copy as it was just before is the persisted list, or it is still the
\* working copy and reported as unsaved.
C27_NoEditLostAcrossSave ==
    [][(presetStore.pendingSave.active /\ ~presetStore'.pendingSave.active)
       => LET working == presetStore.local.list
              key == presetStore.pendingSave.key
          IN \/ presetStore'.persisted[key] = working
             \/ /\ presetStore'.local.defined
                /\ presetStore'.local.list = working
                /\ hasUnsavedChanges(presetStore')]_vars

\* C28: a failed save leaves the working copy and the selection as they
\* are and reports the failure; the unsaved-changes indicator stays set,
\* and a save attempt writes the working copy as it is then.
C28_FailedSaveKeepsWorkingCopy ==
    [][/\ (/\ presetStore.pendingSave.active
           /\ ~presetStore'.pendingSave.active
           /\ presetStore'.persisted = presetStore.persisted)
          => /\ presetStore'.local = presetStore.local
             /\ presetStore'.selected = presetStore.selected
             /\ presetStore'.message = "error"
             /\ hasUnsavedChanges(presetStore) => hasUnsavedChanges(presetStore')
             /\ presetStore.local.list = presetStore.pendingSave.list
                    => hasUnsavedChanges(presetStore')
       /\ (~presetStore.pendingSave.active /\ presetStore'.pendingSave.active)
          => /\ presetStore'.pendingSave.list = presetStore.local.list
             /\ presetStore'.pendingSave.key = settingKey(presetStore.presetType)
             /\ presetStore'.local = presetStore.local]_vars

\* a save has failed and the next attempt is writing the working copy,
\* which is still there and unsaved
C28_Witness ==
    /\ presetStore.message = "error"
    /\ presetStore.pendingSave.active
    /\ presetStore.pendingSave.list = presetStore.local.list
    /\ hasUnsavedChanges(presetStore)

\* the ids of the presets of a list
IdsOf(list) == {list[i].id : i \in 1..Len(list)}

\* C29: starting from a list with pairwise distinct ids, the presets of
\* the current type's working list have pairwise distinct ids after every
\* step (seed, add, duplicate, promote, edit, rename, delete, save); an
\* operation that adds a preset adds exactly one, under an id that no
\* preset of either list has, and no operation changes the id of a preset
\* that stays.
C29_PresetIdsDistinct ==
    [][LET cp == currentPresets(presetStore)
           next == currentPresets(presetStore')
       IN /\ Cardinality(IdsOf(cp)) = Len(cp) => Cardinality(IdsOf(next)) = Len(next)
          /\ presetStore'.pendingSave = presetStore.pendingSave
             => /\ Len(next) <= Len(cp) + 1
                /\ Len(next) = Len(cp) + 1
                      => /\ \A i \in 1..Len(cp) : next[i].id = cp[i].id
                         /\ next[Len(next)].id \notin IdsOf(cp) \cup IdsOf(otherPresets(presetStore))
                /\ Len(next) = Len(cp) => \A i \in 1..Len(cp) : next[i].id = cp[i].id
                /\ Len(next) < Len(cp) => IdsOf(next) \subseteq IdsOf(cp)]_vars

\* two presets were created in a list loaded with two: four distinct ids
C29_Witness ==
    /\ Len(currentPresets(presetStore)) = 4
    /\ Cardinality(IdsOf(currentPresets(presetStore))) = 4
    /\ presetStore.nextId = 7

\* ---------------------------------------------------------------------
\* buildAmlXml on its own: one call with a label name, a paper size and the
\* images of the pages.  saveAsAmlLabels and saveAsZip call it with one
\* image; the paper size is whatever printSettings.customPaperSize holds.
\* ---------------------------------------------------------------------

MaxMm == 4
MaxAmlPages == 2

InitAml ==
    LET \* paper dimensions: whole and fractional millimetres around the 2 mm of the
        \* valid bounds, and a value that is not a finite number
        PaperDimensions ==
            {[finite |-> TRUE, tenths |-> n] : n \in 0..(10 * MaxMm)}
                \cup {[finite |-> FALSE, tenths |-> 0]}
    IN  /\ amlDoc \in [inUse : {TRUE},
                       name : {<<"a">>, <<"a", "&">>},
                       widthMm : PaperDimensions,
                       heightMm : {[finite |-> TRUE, tenths |-> 5 * n] : n \in 0..(2 * MaxMm)}
                                      \cup {[finite |-> FALSE, tenths |-> 0]},
                       base64Pages : SeqsUpTo({"p", "q"}, MaxAmlPages),
                       built : {FALSE},
                       doc : {NoContent}]
        /\ IdleExcept("amlDoc")

\* const aml = buildAmlXml(safeName, paperWidth, paperHeight, [base64])
BuildAml ==
    /\ ~amlDoc.built
    /\ amlDoc' = [amlDoc EXCEPT
                     !.built = TRUE,
                     !.doc = buildAmlXml(amlDoc.name, amlDoc.widthMm,
                                         amlDoc.heightMm, amlDoc.base64Pages)]
    /\ OnlyChanges("amlDoc")

SpecAml == InitAml /\ [][BuildAml]_vars

\* the millimetres a dimension is written as, in tenths: 0 when not finite
WrittenTenths(mm) == IF mm.finite THEN mm.tenths ELSE 0

\* a printed number equals numerator / denominator exactly
PrintsExactly(printed, numerator, denominator) ==
    LET power == IF printed.digits = 0 THEN 1
                 ELSE IF printed.digits = 1 THEN 10
                 ELSE IF printed.digits = 2 THEN 100 ELSE 1000
    IN printed.scaled * denominator = numerator * power

\* a printed number is numerator / denominator to the digits it is printed with
PrintsRounded(printed, numerator, denominator) ==
    LET power == IF printed.digits = 0 THEN 1
                 ELSE IF printed.digits = 1 THEN 10
                 ELSE IF printed.digits = 2 THEN 100 ELSE 1000
        twice == 2 * numerator * power
    IN /\ (2 * printed.scaled - 1) * denominator <= twice
       /\ twice < (2 * printed.scaled + 1) * denominator

\* the parts of the AML claim other than the valid bounds: one page per image,
\* one image per page with the payload and the label size printed with 3
\* decimals, inches = mm / 25.4, a non-finite dimension written as 0
AmlPagesAndSizes ==
    LET doc == amlDoc.doc.aml
        width == WrittenTenths(amlDoc.widthMm)
        height == WrittenTenths(amlDoc.heightMm)
    IN /\ Len(doc.pages) = Len(amlDoc.base64Pages)
       /\ \A k \in 1..Len(doc.pages) :
              /\ Len(doc.pages[k].images) = 1
              /\ doc.pages[k].images[1].content = amlDoc.base64Pages[k]
              /\ doc.pages[k].images[1].width = doc.labelWidth
              /\ doc.pages[k].images[1].height = doc.labelHeight
       /\ doc.labelWidth.digits = 3 /\ PrintsExactly(doc.labelWidth, width, 10)
       /\ doc.labelHeight.digits = 3 /\ PrintsExactly(doc.labelHeight, height, 10)
       /\ \A k \in 1..2 :
              /\ PrintsRounded(doc.displaySizeIn[k], IF k = 1 THEN width ELSE height, 254)
              /\ PrintsRounded(doc.showDisplayIn[k], IF k = 1 THEN width ELSE height, 254)

\* C17: for every label and every paper width and height, the document
\* built has one page element per image, each page holds one image element
\* with the payload and the label's width and height printed with 3
\* decimals, validBoundsWidth and validBoundsHeight equal
\* max(dimension - 2, 0), the inch fields are mm / 25.4, and a dimension
\* that is not finite is written as 0.
C17_AmlEncoding ==
    amlDoc.built =>
        /\ AmlPagesAndSizes
        /\ PrintsExactly(amlDoc.doc.aml.validBoundsWidth,
                         Max({WrittenTenths(amlDoc.widthMm) - 20, 0}), 10)
        /\ PrintsExactly(amlDoc.doc.aml.validBoundsHeight,
                         Max({WrittenTenths(amlDoc.heightMm) - 20, 0}), 10)

\* ---------------------------------------------------------------------
\* VendorLogo (components/vendorLogo.tsx) and getVendorLogoCandidates.
\* vendorLogo holds one mounted component:
\*   vendor                 the vendor prop: ref is the identity of the
\*                          object (what useMemo and useEffect compare),
\*                          data the IVendor it holds (NoVendor: undefined)
\*   usePrintLogo, showFallbackText   the props
\*   currentCandidateIndex  the state of useState(0)
\*   effectPending          the effect of the last commit has not run yet
\*   dom                    what the last commit rendered: an img with its
\*                          src, the fallback text, or nothing
\*   broken                 the URLs whose load fails
\*   ops                    parent renders so far
\* A URL is a sequence of pieces; the scheme, the base path and the fixed
\* directories are one piece each.
\* ---------------------------------------------------------------------

\* getVendorLogoCandidates(vendor, usePrintLogo), with parseExtraString and
\* normalizeUrl; getBasePath() is the piece "basePath"
getVendorLogoCandidates(vendor, usePrintLogo) ==
    LET parseExtraString(value) ==
            IF IsNullish(value) \/ value.s = <<>> THEN Undefined
            ELSE LET parsed == JsonParse(value.s)
                 IN IF IsThrow(parsed) THEN Str(trim(value.s))
                    ELSE IF parsed.t = "string" THEN Str(trim(parsed.s))
                    ELSE Undefined
        normalizeUrl(value) ==
            IF IsNullish(value) \/ value.s = <<>> THEN <<>>
            ELSE IF Head(value.s) \in {"http://", "https://", "data:"} THEN <<value.s>>
            ELSE IF Head(value.s) = "/" THEN <<<<"basePath">> \o value.s>>
            ELSE <<<<"basePath", "/">> \o value.s>>
        customLogo == IF usePrintLogo THEN parseExtraString(vendor.extra.print_logo_url)
                      ELSE parseExtraString(vendor.extra.logo_url)
        slug == slugifyVendorName(vendor.name)
        path(dir, suffix) == <<"basePath", dir>> \o slug \o <<suffix>>
        printCandidates == <<path("/vendor-logos/print/", ".png"),
                             path("/vendor-logos/", ".png")>>
        webCandidates == <<path("/vendor-logos/web/", ".png"),
                           path("/vendor-logos/web/", "-web.png"),
                           path("/vendor-logos/", ".png"),
                           path("/vendor-logos/", "-web.png")>>
        candidates ==
            normalizeUrl(customLogo)
                \o (IF slug = <<>> THEN <<>>
                    ELSE IF usePrintLogo THEN printCandidates
                    ELSE webCandidates \o printCandidates)
        \* [...new Set(candidates)]
        firsts == {k \in 1..Len(candidates) : \A j \in 1..(k - 1) : candidates[j] # candidates[k]}
        RECURSIVE inOrder(_)
        inOrder(ks) == IF ks = {} THEN <<>>
                       ELSE <<candidates[Min(ks)]>> \o inOrder(ks \ {Min(ks)})
    IN IF vendor.defined THEN inOrder(firsts) ELSE <<>>

\* what VendorLogo returns for its props and state
renderVendorLogo(st) ==
    LET candidates == getVendorLogoCandidates(st.vendor.data, st.usePrintLogo)
        fallbackText == IF st.vendor.data.defined THEN st.vendor.data.name ELSE <<>>
    IN IF st.currentCandidateIndex < Len(candidates)
       THEN [kind |-> "img", src |-> candidates[st.currentCandidateIndex + 1]]
       ELSE IF st.showFallbackText /\ fallbackText # <<>>
       THEN [kind |-> "text", src |-> fallbackText]
       ELSE [kind |-> "null", src |-> <<>>]

\* the vendors of the model: undefined, slug only, a custom https logo in
\* JSON, a custom relative logo and a name without slug, a name without slug
\* and no logo, no name at all
VendorInputs ==
    LET vendor(name, logo, print) ==
            [defined |-> TRUE, name |-> name,
             extra |-> [logo_url |-> logo, print_logo_url |-> print]]
    IN {[defined |-> FALSE, name |-> <<>>,
         extra |-> [logo_url |-> Undefined, print_logo_url |-> Undefined]],
        vendor(<<"a">>, Undefined, Undefined),
        vendor(<<"B">>, Str(<<"\"", "https://", "x", "\"">>), Str(<<"7">>)),
        vendor(<<".">>, Str(<<" ", "l">>), Str(<<"/", "p">>)),
        vendor(<<".">>, Str(<<>>), Undefined),
        vendor(<<>>, Undefined, Undefined)}

InitVendorLogo ==
    /\ \E data \in VendorInputs, print \in BOOLEAN, text \in BOOLEAN,
          broken \in {{}, {<<"https://", "x">>},
                      {u \in UNION {{getVendorLogoCandidates(v, b)[k] :
                                        k \in 1..Len(getVendorLogoCandidates(v, b))} :
                                     v \in VendorInputs, b \in BOOLEAN} :
                          Head(u) = "basePath"},
                      UNION {{getVendorLogoCandidates(v, b)[k] :
                                 k \in 1..Len(getVendorLogoCandidates(v, b))} :
                              v \in VendorInputs, b \in BOOLEAN}} :
          LET st == [inUse |-> TRUE,
                     vendor |-> [ref |-> 0, data |-> data],
                     usePrintLogo |-> print,
                     showFallbackText |-> text,
                     currentCandidateIndex |-> 0,
                     effectPending |-> FALSE,
                     dom |-> [kind |-> "null", src |-> <<>>],
                     broken |-> broken,
                     ops |-> 0]
          IN vendorLogo = [st EXCEPT !.dom = renderVendorLogo(st)]
    /\ IdleExcept("vendorLogo")

\* the parent renders and passes a vendor object it has just built or
\* received: VendorLogo renders with its current state, and the effect that
\* depends on [vendor, usePrintLogo] is scheduled
ParentRender(data) ==
    /\ vendorLogo.ops < MaxOps
    /\ ~vendorLogo.effectPending
    /\ LET st == [vendorLogo EXCEPT
                     !.vendor = [ref |-> @.ref + 1, data |-> data],
                     !.effectPending = TRUE,
                     !.ops = @ + 1]
       IN vendorLogo' = [st EXCEPT !.dom = renderVendorLogo(st)]
    /\ OnlyChanges("vendorLogo")

\* useEffect(() => { setCurrentCandidateIndex(0); }, [vendor, usePrintLogo])
RunEffect ==
    /\ vendorLogo.effectPending
    /\ LET st == [vendorLogo EXCEPT !.currentCandidateIndex = 0, !.effectPending = FALSE]
       IN vendorLogo' = [st EXCEPT !.dom = renderVendorLogo(st)]
    /\ OnlyChanges("vendorLogo")

\* onError of the img: setCurrentCandidateIndex((idx) => idx + 1)
ImageError ==
    /\ ~vendorLogo.effectPending
    /\ vendorLogo.dom.kind = "img"
    /\ vendorLogo.dom.src \in vendorLogo.broken
    /\ LET st == [vendorLogo EXCEPT !.currentCandidateIndex = @ + 1]
       IN vendorLogo' = [st EXCEPT !.dom = renderVendorLogo(st)]
    /\ OnlyChanges("vendorLogo")

SpecVendorLogo ==
    InitVendorLogo
        /\ [][(\E data \in VendorInputs : ParentRender(data)) \/ RunEffect \/ ImageError]_vars

\* the candidates of the vendor a state holds
CandidatesOf(st) == getVendorLogoCandidates(st.vendor.data, st.usePrintLogo)

\* the place of the rendered img in the candidates
PlaceOf(st) == Min({k \in 1..Len(CandidatesOf(st)) : CandidatesOf(st)[k] = st.dom.src})

\* the rendered output follows the order of the candidates: an img shows a
\* candidate all of whose predecessors have failed, and anything else is
\* rendered only when every candidate fails; the text needs the prop and a name
RendersInOrder(st) ==
    LET candidates == CandidatesOf(st)
    IN /\ st.dom.kind = "img" =>
              \E k \in 1..Len(candidates) :
                  /\ candidates[k] = st.dom.src
                  /\ \A j \in 1..(k - 1) : candidates[j] \in st.broken
       /\ st.dom.kind # "img" =>
              /\ \A k \in 1..Len(candidates) : candidates[k] \in st.broken
              /\ st.dom.kind = "text" <=>
                     (st.showFallbackText /\ st.vendor.data.defined /\ st.vendor.data.name # <<>>)
              /\ st.dom.kind = "text" => st.dom.src = st.vendor.data.name

\* C18: for a given vendor the logo block tries the candidate URLs in list
\* order, advances only when the current one fails and never returns to an
\* earlier one; the image shown is the first candidate that loads; the
\* vendor's name is rendered as text only when every candidate has failed or
\* there is none (and the text is enabled and not empty); when the vendor
\* changes the attempts restart from the first candidate of the new vendor.
C18_LogoFallbackInOrder ==
    [][/\ RendersInOrder(vendorLogo')
       /\ (/\ vendorLogo'.vendor.data = vendorLogo.vendor.data
           /\ vendorLogo.dom.kind = "img") =>
              (vendorLogo'.dom.kind = "img" => PlaceOf(vendorLogo') >= PlaceOf(vendorLogo))
       /\ (/\ vendorLogo'.vendor.data # vendorLogo.vendor.data
           /\ vendorLogo'.dom.kind = "img") =>
              \A k \in 1..(PlaceOf(vendorLogo') - 1) :
                  CandidatesOf(vendorLogo')[k] \in vendorLogo.broken]_vars

\* ---------------------------------------------------------------------
\* TitleTextBlock (pages/printing/titleTextBlock.tsx).  titleFit holds one
\* mounted block:
\*   fitToWidth, maxTextSizeMm   the props; the size in tenths of a
\*                               millimetre (the inputs have precision 1)
\*   scale                       the state of useState(1), in
\*                               ten-thousandths (it is always a toFixed(4))
\*   effectiveSizeMm             the font size of the last render, in tenths
\*   availableWidth, neededWidth what the last layout effect read:
\*                               container.clientWidth and
\*                               content.scrollWidth, in pixels
\* ---------------------------------------------------------------------

MaxWidthPx == 3

\* the scale the layout effect sets with fit-to-width on
fitScale(scale, availableWidth, neededWidth) ==
    IF availableWidth <= 0 THEN 10000
    ELSE IF neededWidth <= 0 THEN 10000
    ELSE LET currentScale == IF scale > 1 THEN scale ELSE 1
             \* neededWidth / currentScale, never below 1 for these widths;
             \* availableWidth / that, to 4 decimals
             ratio == toFixed(availableWidth * currentScale, neededWidth * 10000, 4).scaled
         IN IF ratio > 10000 THEN 10000 ELSE ratio

InitTitleFit ==
    /\ \E fitToWidth \in BOOLEAN, maxTextSizeMm \in {39, 80} :
          titleFit = [inUse |-> TRUE,
                      fitToWidth |-> fitToWidth,
                      maxTextSizeMm |-> maxTextSizeMm,
                      scale |-> 10000,
                      effectiveSizeMm |-> maxTextSizeMm,
                      availableWidth |-> 0,
                      neededWidth |-> 0]
    /\ IdleExcept("titleFit")

\* a render with the prop fitToWidth, its layout effect with the widths the
\* layout has, and the render the new scale causes
LayoutEffect(fitToWidth, availableWidth, neededWidth) ==
    /\ LET scale == IF fitToWidth
                    THEN fitScale(titleFit.scale, availableWidth, neededWidth)
                    ELSE 10000
       IN titleFit' = [titleFit EXCEPT
              !.fitToWidth = fitToWidth,
              !.availableWidth = availableWidth,
              !.neededWidth = neededWidth,
              !.scale = scale,
              !.effectiveSizeMm =
                  IF fitToWidth THEN toFixed(titleFit.maxTextSizeMm * scale, 100000, 1).scaled
                  ELSE toFixed(titleFit.maxTextSizeMm, 10, 1).scaled]
    /\ OnlyChanges("titleFit")

SpecTitleFit ==
    InitTitleFit
        /\ [][\E fit \in BOOLEAN, available \in 0..MaxWidthPx, needed \in 0..MaxWidthPx :
                  LayoutEffect(fit, available, needed)]_vars

\* C19: with fit-to-width on, the computed scale is in (0, 1] for every
\* content width, container width and previous scale, it does not grow when
\* the available width shrinks for the same content, and the effective size
\* (maxMm * scale to 0.1 mm) never exceeds maxMm; with fit-to-width off the
\* scale is 1 and the effective size is the configured maximum.
C19_TitleAutoFit ==
    [][IF titleFit'.fitToWidth
       THEN /\ titleFit'.scale > 0
            /\ titleFit'.scale <= 10000
            /\ \A narrower \in 0..titleFit'.availableWidth :
                   fitScale(titleFit.scale, narrower, titleFit'.neededWidth)
                       <= titleFit'.scale
            /\ titleFit'.effectiveSizeMm <= titleFit'.maxTextSizeMm
       ELSE /\ titleFit'.scale = 10000
            /\ titleFit'.effectiveSizeMm = titleFit'.maxTextSizeMm]_vars

\* ---------------------------------------------------------------------
\* The height budget of a label (QRCodeExportDialog, its style sheet, and
\* the print-page-item of ExportDialog).  Lengths are tenths of a
\* millimetre.  headerBudget holds one label:
\*   paperHeight, margin, printerMargin   the print settings (top, bottom)
\*   showQRCodeMode                       "no", "simple" or "withIcon"
\*   headerContent         the height the content of the header asks for
\*   maxHeaderHeightMm     the max-height written into the style sheet
\*   mainHeight            the height the layout leaves to print-qrcode-main
\*   laidOut               the label has been rendered and laid out
\* ---------------------------------------------------------------------

\* maxHeaderHeightMm of QRCodeExportDialog
maxHeaderHeightMm(paperHeight, margin, showQRCodeMode) ==
    LET containerPaddingMm == 12
        minMainHeightMm == IF showQRCodeMode = "no" THEN 0 ELSE 80
        availableContentHeightMm ==
            Max({0, paperHeight - margin.top - margin.bottom - containerPaddingMm})
    IN Max({0, availableContentHeightMm - minMainHeightMm})

\* the height of print-qrcode-main: print-page-item is itemHeight high
\* (border-box) with the printer margin as padding; print-qrcode-item fills
\* it with 0.6mm padding; the header (overflow visible, max-height) takes
\* its content height up to maxHeaderHeightMm and 0.3mm margin-bottom; the
\* main row (flex 1 1 auto, min-height 0) takes what is left
mainRowHeight(paperHeight, margin, printerMargin, headerContent, maxHeader) ==
    LET itemHeight == Max({paperHeight - margin.top - margin.bottom, 0})
        paddingTop == Max({printerMargin.top - margin.top, 0})
        paddingBottom == Max({printerMargin.bottom - margin.bottom, 0})
        inner == Max({itemHeight - paddingTop - paddingBottom - 12, 0})
        header == IF headerContent = 0 THEN 0
                  ELSE Min({headerContent, maxHeader}) + 3
    IN Max({inner - header, 0})

InitHeaderBudget ==
    /\ \E paperHeight \in {200, 300}, showQRCodeMode \in {"no", "simple", "withIcon"},
          top \in 0..MaxMm, bottom \in 0..MaxMm,
          printerTop \in 0..MaxMm, printerBottom \in 0..MaxMm :
          headerBudget = [inUse |-> TRUE,
                          paperHeight |-> paperHeight,
                          margin |-> [top |-> 10 * top, bottom |-> 10 * bottom],
                          printerMargin |-> [top |-> 10 * printerTop,
                                             bottom |-> 10 * printerBottom],
                          showQRCodeMode |-> showQRCodeMode,
                          headerContent |-> 0,
                          maxHeaderHeightMm |-> 0,
                          mainHeight |-> 0,
                          laidOut |-> FALSE]
    /\ IdleExcept("headerBudget")

\* the label is rendered with a header whose content has this height (0: no
\* header element) and laid out
LayoutLabel(headerContent) ==
    /\ ~headerBudget.laidOut
    /\ LET maxHeader == maxHeaderHeightMm(headerBudget.paperHeight, headerBudget.margin,
                                          headerBudget.showQRCodeMode)
       IN headerBudget' = [headerBudget EXCEPT
              !.headerContent = headerContent,
              !.maxHeaderHeightMm = maxHeader,
              !.mainHeight = mainRowHeight(headerBudget.paperHeight, headerBudget.margin,
                                           headerBudget.printerMargin, headerContent,
                                           maxHeader),
              !.laidOut = TRUE]
    /\ OnlyChanges("headerBudget")

SpecHeaderBudget ==
    InitHeaderBudget /\ [][\E headerContent \in {0, 60, 400} : LayoutLabel(headerContent)]_vars

\* C20: maxHeaderHeightMm = max(0, paperHeight - topMargin - bottomMargin
\* - 1.2 - minMainHeightMm), minMainHeightMm being 0 when the QR block is
\* hidden and 8 otherwise; with this cap, for every paper height, label
\* margin and printer margin with the QR block shown, the height left to
\* the main row is never zero, however large the header content.
C20_MainRowNeverCollapses ==
    headerBudget.laidOut =>
        /\ headerBudget.maxHeaderHeightMm =
               Max({0, headerBudget.paperHeight - headerBudget.margin.top
                          - headerBudget.margin.bottom - 12
                          - (IF headerBudget.showQRCodeMode = "no" THEN 0 ELSE 80)})
        /\ headerBudget.showQRCodeMode # "no" => headerBudget.mainHeight > 0

\* ---------------------------------------------------------------------
\* The options of the rasterizer.  raster holds the exportDpi of
\* printSettings and the pixelRatio of the options of one toPng call, as
\* the number of its 96ths (300 / 96 = 3.125 is 300).
\* ---------------------------------------------------------------------

MaxDpi == 1000

\* the mutation of getExportImageOptions: no upper limit
getExportImageOptionsUnclamped(settingsDpi) ==
    LET exportDpi == IF IsNullish(settingsDpi) \/ settingsDpi.n = 0 THEN 300
                     ELSE settingsDpi.n
    IN [pixelRatio |-> Max({96, exportDpi})]

\* exportDpi = printSettings?.exportDpi || 300 and getExportImageOptions:
\* pixelRatio = Math.max(1, Math.min(exportDpi / 96, 10))
getExportImageOptions(settingsDpi) ==
    LET exportDpi == IF IsNullish(settingsDpi) \/ settingsDpi.n = 0 THEN 300
                     ELSE settingsDpi.n
    IN [pixelRatio |-> Max({96, Min({exportDpi, 960})})]

InitRaster ==
    /\ \E dpi \in {Undefined} \cup {Num(d) : d \in (0 - 1)..MaxDpi} :
          raster = [inUse |-> TRUE, exportDpi |-> dpi, called |-> FALSE, pixelRatio |-> 0]
    /\ IdleExcept("raster")

\* htmlToImage.toPng(item, getExportImageOptions())
RasterizeLabel ==
    /\ ~raster.called
    /\ raster' = [raster EXCEPT
                     !.called = TRUE,
                     !.pixelRatio = getExportImageOptions(raster.exportDpi).pixelRatio]
    /\ OnlyChanges("raster")

SpecRaster == InitRaster /\ [][RasterizeLabel]_vars

\* C21: the pixel ratio handed to the rasterizer is clamp(dpi / 96, 1, 10),
\* an unset or zero DPI counting as 300 (300 dpi gives 3.125), so it is
\* always within [1, 10].
C21_PixelRatioClamped ==
    raster.called =>
        LET dpi == IF raster.exportDpi = Undefined \/ raster.exportDpi = Num(0) THEN 300
                   ELSE raster.exportDpi.n
        IN /\ raster.pixelRatio = (IF dpi < 96 THEN 96 ELSE IF dpi > 960 THEN 960 ELSE dpi)
           /\ raster.pixelRatio >= 96
           /\ raster.pixelRatio <= 960
           /\ (dpi = 300 => raster.pixelRatio * 1000 = 3125 * 96)

\* a call with more than 960 dpi configured, held at 10
C21_Witness ==
    /\ raster.called
    /\ raster.exportDpi = Num(MaxDpi)
    /\ raster.pixelRatio = 960

\* ---------------------------------------------------------------------
\* The element of one label.  labelDom holds the print settings that
\* decide the parts of a label, the vendor and the title of one item and
\* the parts of the element rendered for it.
\* ---------------------------------------------------------------------

NoElement ==
    [header |-> FALSE, logoRow |-> FALSE, titleArea |-> FALSE,
     main |-> FALSE, info |-> FALSE, codeColumn |-> FALSE]

\* the mutation of renderLabelElement: the header is rendered whenever the
\* logo or the title is enabled
renderLabelElementAlwaysHeader(settings, item) ==
    LET showContent == IF settings.showContent = Undefined THEN TRUE
                       ELSE settings.showContent.n = 1
        showQRCodeMode == IF IsNullish(settings.showQRCodeMode) \/ settings.showQRCodeMode.s = <<>>
                          THEN <<"w", "i", "t", "h", "I", "c", "o", "n">>
                          ELSE settings.showQRCodeMode.s
        showManufacturerLogo == IF IsNullish(settings.showManufacturerLogo) THEN TRUE
                                ELSE settings.showManufacturerLogo.n = 1
        showTitle == IF IsNullish(settings.showTitle) THEN TRUE ELSE settings.showTitle.n = 1
        hasVendor == ~IsNullish(item.vendor)
        hasTitle == ~IsNullish(item.title)
        hasHeader == showManufacturerLogo \/ showTitle
        hasMain == showQRCodeMode # <<"n", "o">> \/ showContent
    IN [header |-> hasHeader,
        logoRow |-> hasHeader /\ showManufacturerLogo /\ hasVendor,
        titleArea |-> hasHeader /\ showTitle /\ hasTitle,
        main |-> hasMain,
        info |-> hasMain /\ showContent,
        codeColumn |-> hasMain /\ showQRCodeMode # <<"n", "o">>]

\* the callback of items.map in QRCodeExportDialog, with the defaults of
\* the settings it reads; a vendor and a title are objects or undefined
renderLabelElement(settings, item) ==
    LET showContent == IF settings.showContent = Undefined THEN TRUE
                       ELSE settings.showContent.n = 1
        showQRCodeMode == IF IsNullish(settings.showQRCodeMode) \/ settings.showQRCodeMode.s = <<>>
                          THEN <<"w", "i", "t", "h", "I", "c", "o", "n">>
                          ELSE settings.showQRCodeMode.s
        showManufacturerLogo == IF IsNullish(settings.showManufacturerLogo) THEN TRUE
                                ELSE settings.showManufacturerLogo.n = 1
        showTitle == IF IsNullish(settings.showTitle) THEN TRUE ELSE settings.showTitle.n = 1
        hasVendor == ~IsNullish(item.vendor)
        hasTitle == ~IsNullish(item.title)
        hasHeader == (showManufacturerLogo /\ hasVendor) \/ (showTitle /\ hasTitle)
        hasMain == showQRCodeMode # <<"n", "o">> \/ showContent
    IN [header |-> hasHeader,
        logoRow |-> hasHeader /\ showManufacturerLogo /\ hasVendor,
        titleArea |-> hasHeader /\ showTitle /\ hasTitle,
        main |-> hasMain,
        info |-> hasMain /\ showContent,
        codeColumn |-> hasMain /\ showQRCodeMode # <<"n", "o">>]

InitLabelDom ==
    /\ \E showContent, showManufacturerLogo, showTitle \in {Undefined, Bool(TRUE), Bool(FALSE)},
          showQRCodeMode \in {Undefined, Str(<<>>), Str(<<"n", "o">>),
                             Str(<<"s", "i", "m", "p", "l", "e">>),
                             Str(<<"w", "i", "t", "h", "I", "c", "o", "n">>)},
          vendor, title \in {Undefined, Object(NoProps)} :
          labelDom = [inUse |-> TRUE,
                      settings |-> [showContent |-> showContent,
                                    showQRCodeMode |-> showQRCodeMode,
                                    showManufacturerLogo |-> showManufacturerLogo,
                                    showTitle |-> showTitle],
                      item |-> [vendor |-> vendor, title |-> title],
                      rendered |-> FALSE,
                      element |-> NoElement]
    /\ IdleExcept("labelDom")

\* one render of QRCodeExportDialog
RenderLabel ==
    /\ ~labelDom.rendered
    /\ labelDom' = [labelDom EXCEPT
                       !.rendered = TRUE,
                       !.element = renderLabelElement(labelDom.settings, labelDom.item)]
    /\ OnlyChanges("labelDom")

SpecLabelDom == InitLabelDom /\ [][RenderLabel]_vars

\* the setting as enabled, a missing one being enabled
Enabled(setting) == setting # Bool(FALSE)

\* C22: the header element is rendered exactly when the logo is enabled
\* and the item has a vendor, or the title is enabled and the item has a
\* title; the main row is rendered exactly when the QR mode is not "no"
\* or the information content is enabled.
C22_HeaderOmission ==
    labelDom.rendered =>
        /\ labelDom.element.header <=>
              \/ Enabled(labelDom.settings.showManufacturerLogo) /\ labelDom.item.vendor # Undefined
              \/ Enabled(labelDom.settings.showTitle) /\ labelDom.item.title # Undefined
        /\ labelDom.element.header <=> (labelDom.element.logoRow \/ labelDom.element.titleArea)
        /\ labelDom.element.main <=>
              \/ labelDom.settings.showQRCodeMode # Str(<<"n", "o">>)
              \/ Enabled(labelDom.settings.showContent)

\* a label rendered with the logo and the title enabled for an item with
\* neither: no header, and the main row is there
C22_Witness ==
    /\ labelDom.rendered
    /\ labelDom.settings.showManufacturerLogo = Bool(TRUE)
    /\ labelDom.settings.showTitle = Bool(TRUE)
    /\ labelDom.item = [vendor |-> Undefined, title |-> Undefined]
    /\ ~labelDom.element.header
    /\ labelDom.element.main

\* ---------------------------------------------------------------------
\* The resolution of one tag.  tagLookup holds a tag, a record and the
\* value getTagValue returns for them.
\* ---------------------------------------------------------------------

MaxSegments == 3

\* the dot-separated paths of one to MaxSegments segments
TagPaths ==
    LET Segments == { <<"a">>, <<"b">>, <<"v">>, <<"n">>, <<"x">>, ExtraKey, <<"k">> }
    IN {Join(q, ".") : q \in SeqsUpTo(Segments, MaxSegments) \ {<<>>}}

InitTagLookup ==
    /\ \E tag \in TagPaths,
          o \in {r \in Records : GetProp(r, ExtraKey) \in {ExtraWithK, Object(NoProps)}} :
          tagLookup = [inUse |-> TRUE, tag |-> tag, obj |-> o, called |-> FALSE, out |-> Undefined]
    /\ IdleExcept("tagLookup")

\* getTagValue(tag, obj) as renderTemplateText calls it
LookupTag ==
    /\ ~tagLookup.called
    /\ tagLookup' = [tagLookup EXCEPT !.called = TRUE,
                                      !.out = getTagValue(tagLookup.tag, tagLookup.obj)]
    /\ OnlyChanges("tagLookup")

SpecTagLookup == InitTagLookup /\ [][LookupTag]_vars

\* the value reached by traversing the segments in order from value v, the
\* sentinel when a segment cannot be traversed
RECURSIVE Traverse(_, _)
Traverse(segments, v) ==
    IF segments = <<>>
    THEN IF IsNullish(v) \/ v.t = "object" THEN Sentinel ELSE v
    ELSE IF v.t # "object" THEN Sentinel
    ELSE IF Head(segments) = ExtraKey /\ Len(segments) >= 2 /\ GetProp(v, ExtraKey).t = "object"
         THEN LET extraValue == GetProp(GetProp(v, ExtraKey), segments[2])
              IN IF extraValue.t # "string" THEN Sentinel
                 ELSE Traverse(Tail(Tail(segments)), JsonParse(extraValue.s))
    ELSE Traverse(Tail(segments), GetProp(v, Head(segments)))

\* C25: a tag resolves to the value reached by traversing all of its
\* dot-separated segments in order, extra followed by a key giving the
\* JSON-decoded value of the key, and to the sentinel "?" when a segment
\* cannot be traversed: a missing or null field, a path that ends on an
\* object, a path that continues past a scalar.
C25_TagPathResolution ==
    tagLookup.called =>
        tagLookup.out = Traverse(Split(tagLookup.tag, "."), tagLookup.obj)

\* ---------------------------------------------------------------------
\* The nested objects of a preset.  A preset's margin is an object that
\* the spreads of buildNewPreset, promotePresetToCurrentType and
\* duplicateCurrentPreset copy by reference.  In this specification a
\* preset may have a field margin, the position of its margin object in
\* the heap of presetStore; the heap holds the value of margin.left of
\* each object.  A preset without the field has no margin set.
\* ---------------------------------------------------------------------

\* the dialog is mounted with stored presets that have no margin set
InitPresetEdit ==
    /\ IdleExcept("presetStore")
    /\ \E type \in {"spool", "filament"},
          own \in { <<>>,
                    <<[id |-> 1, name |-> <<"X">>, settings |-> 0]>>,
                    <<[id |-> 1, name |-> <<"X">>, settings |-> 0],
                      [id |-> 2, name |-> defaultPresetName, settings |-> 0]>> },
          other \in { <<>>, <<[id |-> 3, name |-> <<"X">>, settings |-> 0]>> },
          sel \in {[kind |-> "none", type |-> "", id |-> 0]}
                    \cup [kind : {"typed"}, type : {"spool", "filament"}, id : {3}] :
            presetStore =
                [presetType |-> type,
                 persisted |-> (settingKey(type) :> own)
                                @@ (settingKey(otherPresetType(type)) :> other),
                 local |-> [defined |-> FALSE, list |-> <<>>],
                 selected |-> sel,
                 cur |-> emptyPreset,
                 dirty |-> TRUE,
                 pendingSave |-> [active |-> FALSE, key |-> "", list |-> <<>>],
                 message |-> "none",
                 ops |-> 0,
                 nextId |-> 5,
                 heap |-> <<>>]

\* the onChange of the left margin in ExportDialog: margin is
\* printSettings.margin or a new object; margin.left = value;
\* printSettings.margin = margin; setPrintSettings(printSettings), which
\* ends in updateCurrentPreset(curPreset)
EditMargin(value) ==
    /\ HandlerReady
    /\ LET st == presetStore
           hasMargin == "margin" \in DOMAIN st.cur
           left == IF hasMargin THEN st.heap[st.cur.margin] ELSE 0
           margin == IF hasMargin THEN st.cur.margin ELSE Len(st.heap) + 1
           heap == IF hasMargin THEN [st.heap EXCEPT ![margin] = value]
                   ELSE Append(st.heap, value)
           curPreset == [k \in DOMAIN st.cur \cup {"margin"} |->
                            IF k = "margin" THEN margin ELSE st.cur[k]]
       IN /\ value # left
          /\ presetStore' = afterHandler(updateCurrentPreset([st EXCEPT !.heap = heap], curPreset))
    /\ OnlyChanges("presetStore")

SpecPresetEdit ==
    InitPresetEdit /\
    [][ \/ RenderPresets
        \/ \E type \in {"spool", "filament"}, id \in 1..presetStore.nextId : SelectPreset(type, id)
        \/ AddNewPreset
        \/ DuplicateCurrentPreset
        \/ EditSettings(1)
        \/ \E value \in {0, 1} : EditMargin(value)
        \/ RenamePreset(<<"Y">>)
        \/ DeleteCurrentPreset ]_vars

\* a preset by value: its fields, the margin by the value of its object
ByValue(preset, heap) ==
    [id |-> preset.id, name |-> preset.name, settings |-> preset.settings,
     marginLeft |-> IF "margin" \in DOMAIN preset THEN heap[preset.margin] ELSE 0 - 1]

\* C26: an operation that keeps the presets of the working list in place
\* (an edit of a setting or of a nested value of the selected preset, an
\* add, a duplicate, a promote, a selection) leaves every preset other than
\* the selected one unchanged by value.
C26_EditChangesOnlySelected ==
    [][LET cp == currentPresets(presetStore)
           next == currentPresets(presetStore')
           parsed == parsePresetValue(presetStore)
       IN (/\ presetStore'.ops = presetStore.ops + 1
           /\ Len(next) >= Len(cp)
           /\ \A i \in 1..Len(cp) : next[i].id = cp[i].id)
          => \A i \in 1..Len(cp) :
                \/ parsed.ok /\ parsed.type = presetStore.presetType /\ cp[i].id = parsed.id
                \/ ByValue(next[i], presetStore'.heap) = ByValue(cp[i], presetStore.heap)]_vars

====
